---- MODULE Spec2Model ----
(***************************************************************************)
(* Model of the orchestration core of meteora_dlmm (src/main.go): the      *)
(* lifecycle supervisor and signal handler, the directory watcher with its *)
(* dedup set and permit pool, the three periodic schedulers, and the       *)
(* ledger tailer.                                                          *)
(*                                                                         *)
(* Three specifications share the variables:                               *)
(*   Spec      the supervisor: main's event loop, dedup, the permit pool,  *)
(*             dispatch workers, signals and shutdown; a scheduler pass is *)
(*             one step from its start to its end.                         *)
(*   SpecSweep the schedulers' passes item by item, with the external      *)
(*             actions they run and the effect of cancellation on them;    *)
(*             main stays in its loop or in shutdownWg.Wait().             *)
(*   SpecTail  the ledger tailer: getLineCount, processNewLines and        *)
(*             parseCSVRecord over a ledger of lines.                      *)
(* LiveSpec is Spec with the fairness that the Go scheduler gives.         *)
(***************************************************************************)
EXTENDS Integers, Sequences, FiniteSets, TLC

\* const maxConcurrent = 20: the capacity of the buffered channel sem.
maxConcurrent == 20

\* Number of distinct document paths the filesystem can report.
NumPaths == 22

Paths == 1..NumPaths

Schedulers == {"price", "claim", "swap"}

\* The external actions: addLiquidity.ts, fetchPrice.ts, claimAllRewards.ts,
\* ./jupSwap without arguments, ./jupSwap -input <ca>.
ExtActions == {"provision", "price", "harvest", "listing", "swap"}

\* Largest number of items one scheduler pass enumerates.
MaxItems == 2

VARIABLES
    mainPc,          \* position of main: "select", "acquire", "drain",
                     \*   "returned", "crashed" (panic), "killed" (os.Exit)
    eventName,       \* event.Name of the Create event being dispatched
    processedFiles,  \* the sync.Map processedFiles, as the set of its keys
    sem,             \* number of tokens held in the channel sem
    running,         \* number of dispatch goroutines inside processNewJSONFile
    dispatched,      \* per path: how many times a dispatch goroutine was started
    dupLoaded,       \* some Create event found its path already stored
    cancelled,       \* globalCtx is cancelled (globalCtx.Done() is closed)
    sigPc,           \* signal goroutine: "first", "second", "exit"
    sched,           \* per scheduler goroutine: its position
    logClosed,       \* closeLogging has run
    watch,           \* one document path whose dispatch is followed step by
                     \*   step (0: none); the other dispatch goroutines are
                     \*   only counted in running
    watchDoc,        \* what processNewJSONFile finds at that path
    watchPc,         \* where that dispatch is: "none", "accepted" (stored
                     \*   in processedFiles), "started" (goroutine started,
                     \*   permit held), "exec" (addLiquidity.ts running),
                     \*   "done"
    watchExit,       \* the path on which its processNewJSONFile returned
    act,             \* per external action: "idle", or "running" as a subprocess
    outcome,         \* per external action: how its last run ended, until the
                     \*   caller has logged it ("none" otherwise)
    passLen,         \* per scheduler: number of items of the current pass
    idx,             \* per scheduler: index of the current item of the pass
    swapInvoked,     \* swap actions started in the current Swap Sweep pass
    inFlightAtCancel,\* the external actions that were running when
                     \*   globalCancel() was called and whose result the
                     \*   caller has not logged yet
    claimDoc,        \* Reward Harvest: the document as last read for the
                     \*   current item of the pass
    banFile,         \* the text of data/ban/ban.csv
    banList,         \* the map readBanList returned in the current Swap
                     \*   Sweep pass, as the set of its keys
    listingOut,      \* the output of the holdings listing of the current
                     \*   pass, as its lines
    tokenAddresses,  \* the list executeJupSwap walks in the current pass
    passed,          \* the token addresses the swap action was started
                     \*   with in the current pass, in order
    ledger,          \* the lines of the ledger file, the header line first
    csvHeaders,      \* the header list read at startup
    currentLineCount,\* main's high-water mark
    store,           \* the State Store: document name -> document
    cycle,           \* the last tail cycle (with the State Store as it left
                     \*   it, whether its rows were processed again, and the
                     \*   documents whose os.WriteFile failed in it):
                     \*   the line counts it ran between,
                     \*   whether processNewLines opened the ledger, the
                     \*   lines its processing loop read and the names of
                     \*   the documents it wrote
    scanned,         \* the lines of the ledger that the processing loop of
                     \*   some tail cycle has read so far
    who,             \* the scheduler whose timing is followed on the clock
    startAt,         \* time.Now() when its goroutine began, in seconds from
                     \*   the beginning of that minute
    now,             \* the wall clock, in seconds from the same origin
    tpc,             \* that goroutine's position: "init" (the first
                     \*   select, on time.After), "pass" (inside execute...),
                     \*   "select" (the ticker loop)
    target,          \* nextTarget, the instant the first select waits for
    nextTick,        \* the instant of the ticker's next tick (0: no ticker)
    tick,            \* a tick is waiting in ticker.C (capacity 1)
    passes,          \* passes of that scheduler in progress
    inFlight,        \* subprocesses of that scheduler in flight
    startedNow,      \* a pass of it began during the current second
    carried,         \* a pass of it was in progress when the current
                     \*   second began
    docs,            \* per pool: where its document is ("none", "store",
                     \*   "history") and the positionAddress it holds (0:
                     \*   none)
    onChain,         \* number of positions opened on chain so far; a new
                     \*   position is named by the next number
    run,             \* per run of addLiquidity.ts: its pool, its position
                     \*   in main(), the position it opened, what it
                     \*   completed, its exit code and what the dispatcher
                     \*   logged for it
    env,             \* POOL_ADDRESS and POSITION_ADDRESS of the .env file
    harvest,         \* the last run of claimAllRewards.ts: the --pool
                     \*   argument it was given, and the pool and position
                     \*   it acted on
    minute,          \* Date.now(), in whole minutes
    fetch,           \* the fetchPrice.ts process: the pool it was started
                     \*   for ("none" when no such process runs) and its
                     \*   priceMonitorStates map, per pool the startTime of
                     \*   the monitoring or -1
    entered,         \* per pool: the minute at which a price check found
                     \*   the price below 0.4*c and began monitoring, -1 if
                     \*   none did since the last removal it triggered
    triggered,       \* the last price check called executeRemoveLiquidity
                     \*   from checkPriceMonitoring
    lastPrice,       \* the price that the last price check compared
    rem,             \* the run of removeLiquidity.ts: its pool, its
                     \*   position in removeLiquidity(), the transactions
                     \*   left to send, whether all were sent and how the
                     \*   follow-up swap was judged
    listFailed,      \* the holdings listing of the last Swap Sweep pass
                     \*   that ran it failed or timed out
    swapLog,         \* the last entry the Swap Sweep scheduler wrote to the
                     \*   Log Sink: what it is about, the mark at its head
                     \*   and the branch that wrote it
    banStat,         \* data/ban/ban.csv: "exists", "missing", or
                     \*   "unreadable" (os.ReadFile fails)
    banChecked,      \* the addresses that were looked up in banList in the
                     \*   last listing that was parsed
    logPc,           \* per task: where it is in logOutput ("out", "wait"
                     \*   blocked in logMutex.Lock(), "locked" past the
                     \*   Lock, "wrote" past the write and before the
                     \*   Unlock); for main also "closing" (inside
                     \*   closeLogging) and "gone" (past it)
    lateWrite,       \* some task called logFile.WriteString after
                     \*   closeLogging had closed the file
    boot,            \* main's startup: the step it is at, the step that
                     \*   failed ("none" if none did) and what has been
                     \*   started so far
    job              \* one call of processNewJSONFile: the file at its
                     \*   path, its position ("idle", "read", "exec",
                     \*   "done"), the arguments it gave addLiquidity.ts
                     \*   (none when no command was run) and the path on
                     \*   which it returned

supVars == <<mainPc, eventName, processedFiles, sem, running, dispatched,
             dupLoaded, cancelled, sigPc, sched, logClosed>>

extVars == <<act, outcome, inFlightAtCancel>>

tokVars == <<banFile, banList, listingOut, tokenAddresses, passed>>

sweepVars == <<extVars, passLen, idx, swapInvoked, claimDoc, tokVars>>

tailVars == <<ledger, csvHeaders, currentLineCount, store, cycle, scanned>>

watchVars == <<watch, watchDoc, watchPc, watchExit>>

clockVars == <<who, startAt, now, tpc, target, nextTick, tick, passes,
               inFlight, startedNow, carried>>

actionVars == <<docs, onChain, run, env, harvest>>

guardVars == <<minute, fetch, entered, triggered, lastPrice, rem>>

earlyVars == <<clockVars, actionVars, guardVars>>

logVars == <<logPc, lateWrite>>

otherLate == <<job, logVars, boot>>

swapLateVars == <<listFailed, swapLog, banStat, banChecked>>

lateVars == <<otherLate, swapLateVars>>

auxVars == <<earlyVars, lateVars>>

vars == <<supVars, watchVars, sweepVars, tailVars, auxVars>>

\* The process is alive: main has not returned, panicked or been exited.
ProcessAlive == mainPc \in {"select", "acquire", "drain"}

ProcessExited == mainPc \in {"returned", "crashed", "killed"}

----------------------------------------------------------------------------
(* The signal goroutine, main.go:107-116.                                  *)

\* First signal: sig := <-sigChan; globalCancel().
FirstSignal ==
    /\ ProcessAlive
    /\ sigPc = "first"
    /\ cancelled' = TRUE
    /\ sigPc' = "second"
    /\ inFlightAtCancel' = {a \in ExtActions : act[a] = "running"}
    /\ UNCHANGED <<mainPc, eventName, processedFiles, sem, running,
                   dispatched, dupLoaded, sched, logClosed>>
    /\ UNCHANGED <<act, outcome, passLen, idx, swapInvoked>>
    /\ UNCHANGED <<claimDoc, tokVars>>
    /\ UNCHANGED tailVars
    /\ UNCHANGED watchVars
    /\ UNCHANGED auxVars

\* Faulty variant: the exit waits until the dispatch workers and the
\* schedulers are done.
ExitsWhenDrained(workers, schedulers) ==
    workers = 0 /\ \A s \in DOMAIN schedulers : schedulers[s] = "exited"

\* os.Exit(1) is called as soon as the second signal is received, whatever
\* the dispatch workers and the schedulers are doing.
ExitsNow(workers, schedulers) == TRUE

\* Second signal: sig2 := <-sigChan; os.Exit(1).
SecondSignal ==
    /\ ProcessAlive
    /\ sigPc = "second"
    /\ ExitsNow(running, sched)
    /\ sigPc' = "exit"
    /\ mainPc' = "killed"
    /\ UNCHANGED <<eventName, processedFiles, sem, running, dispatched,
                   dupLoaded, cancelled, sched, logClosed>>
    /\ UNCHANGED sweepVars
    /\ UNCHANGED tailVars
    /\ UNCHANGED watchVars
    /\ UNCHANGED auxVars

----------------------------------------------------------------------------
(* main's event loop, main.go:187-241.                                     *)

\* The paths a Create event can name next.  Paths are interchangeable to the
\* code, so the first event of each path is taken in index order; repeated
\* events may name any path already reported.
NextFresh == Cardinality(processedFiles) + 1

\* Faulty variant: the dedup lookup never finds the path.
LoadedNever(files, p) == FALSE

\* processedFiles.LoadOrStore(event.Name, true): the "loaded" result.
Loaded(files, p) == p \in files

\* What processNewJSONFile can find at a path: a file it cannot read, one
\* that is not JSON, a document without poolAddress, one with a poolAddress.
DocKinds == {"unreadable", "badJson", "noPool", "pool"}

\* case event := <-watcher.Events, a Create of a .json path under dataDir.
\* follow says whether this dispatch is the one followed step by step, doc
\* what is at the path.
RecvCreate(p, follow, doc) ==
    /\ mainPc = "select"
    /\ p \in Paths
    /\ p \in processedFiles \/ p = NextFresh
    /\ doc \in DocKinds
    /\ IF Loaded(processedFiles, p)
         THEN /\ dupLoaded' = TRUE
              /\ UNCHANGED <<mainPc, eventName, processedFiles>>
              /\ UNCHANGED watchVars
         ELSE /\ processedFiles' = processedFiles \cup {p}
              /\ eventName' = p
              /\ mainPc' = "acquire"
              /\ UNCHANGED dupLoaded
              /\ IF follow /\ watch = 0
                   THEN /\ watch' = p
                        /\ watchDoc' = doc
                        /\ watchPc' = "accepted"
                        /\ UNCHANGED watchExit
                   ELSE UNCHANGED watchVars
    /\ UNCHANGED <<sem, running, dispatched, cancelled, sigPc, sched, logClosed>>
    /\ UNCHANGED sweepVars
    /\ UNCHANGED tailVars
    /\ UNCHANGED auxVars

\* Faulty variant: the send on sem never blocks.
CanAcquireAlways(n) == TRUE

\* sem <- struct{}{} can proceed: the channel holds fewer than its capacity.
CanAcquire(n) == n < maxConcurrent

\* time.Sleep(100ms); sem <- struct{}{}; go func(path){...}(event.Name).
Acquire ==
    /\ mainPc = "acquire"
    /\ CanAcquire(sem)
    /\ sem' = sem + 1
    /\ running' = running + 1
    /\ dispatched' = [dispatched EXCEPT ![eventName] = @ + 1]
    /\ mainPc' = "select"
    /\ watchPc' = IF eventName = watch /\ watchPc = "accepted"
                    THEN "started" ELSE watchPc
    /\ UNCHANGED <<watch, watchDoc, watchExit>>
    /\ UNCHANGED <<eventName, processedFiles, dupLoaded, cancelled, sigPc,
                   sched, logClosed>>
    /\ UNCHANGED sweepVars
    /\ UNCHANGED tailVars
    /\ UNCHANGED auxVars

\* The paths on which processNewJSONFile returns.
ExitPaths == {"readError", "parseError", "noPool", "fail", "ok"}

\* Faulty variant: the token is given back at the end of the function body
\* only.
ReleasesOnSuccessOnly(exit) == exit = "ok"

\* defer func() { <-sem }(): the token is given back when the goroutine's
\* function returns, on whichever path.
Releases(exit) == TRUE

\* The dispatch goroutines that are only counted.
Unfollowed == running - (IF watchPc \in {"started", "exec"} THEN 1 ELSE 0)

\* A dispatch goroutine that is only counted: processNewJSONFile(path)
\* returns on one of its paths, then the deferred <-sem gives the token back.
WorkerDone(exit) ==
    /\ ProcessAlive
    /\ Unfollowed > 0
    /\ exit \in ExitPaths
    /\ running' = running - 1
    /\ sem' = IF Releases(exit) THEN sem - 1 ELSE sem
    /\ UNCHANGED <<mainPc, eventName, processedFiles, dispatched, dupLoaded,
                   cancelled, sigPc, sched, logClosed>>
    /\ UNCHANGED sweepVars
    /\ UNCHANGED tailVars
    /\ UNCHANGED watchVars
    /\ UNCHANGED auxVars

\* Faulty variant: the poolAddress check fails for every document.
HasPoolAddressNever(doc) == FALSE

\* processNewJSONFile gets past os.ReadFile, json.Unmarshal and
\* "if poolAddress == \"\"".
HasPoolAddress(doc) == doc = "pool"

\* The followed dispatch goroutine, processNewJSONFile up to the command:
\* os.ReadFile, json.Unmarshal and the poolAddress check each return early;
\* otherwise addLiquidity.ts is started.
WatchedRead ==
    /\ ProcessAlive
    /\ watchPc = "started"
    /\ IF HasPoolAddress(watchDoc)
         THEN /\ watchPc' = "exec"
              /\ UNCHANGED <<watchExit, running, sem>>
         ELSE /\ watchPc' = "done"
              /\ watchExit' = CASE watchDoc = "unreadable" -> "readError"
                                 [] watchDoc = "badJson" -> "parseError"
                                 [] OTHER -> "noPool"
              /\ running' = running - 1
              /\ sem' = IF Releases(watchExit') THEN sem - 1 ELSE sem
    /\ UNCHANGED <<watch, watchDoc>>
    /\ UNCHANGED <<mainPc, eventName, processedFiles, dispatched, dupLoaded,
                   cancelled, sigPc, sched, logClosed>>
    /\ UNCHANGED sweepVars
    /\ UNCHANGED tailVars
    /\ UNCHANGED auxVars

\* The followed dispatch goroutine: addLiquidity.ts exits, processNewJSONFile
\* returns, the deferred <-sem gives the token back.
WatchedFinish(exit) ==
    /\ ProcessAlive
    /\ watchPc = "exec"
    /\ exit \in {"fail", "ok"}
    /\ watchPc' = "done"
    /\ watchExit' = exit
    /\ running' = running - 1
    /\ sem' = IF Releases(exit) THEN sem - 1 ELSE sem
    /\ UNCHANGED <<watch, watchDoc>>
    /\ UNCHANGED <<mainPc, eventName, processedFiles, dispatched, dupLoaded,
                   cancelled, sigPc, sched, logClosed>>
    /\ UNCHANGED sweepVars
    /\ UNCHANGED tailVars
    /\ UNCHANGED auxVars

\* A Write event of the ledger: main runs the tail cycle inline.  Here only
\* its effect on main is kept (SpecTail has the cycle itself): it returns, or
\* it panics on a row for which parseCSVRecord returned nil.
RecvCsvWrite(panics) ==
    /\ mainPc = "select"
    /\ mainPc' = IF panics THEN "crashed" ELSE "select"
    /\ UNCHANGED <<eventName, processedFiles, sem, running, dispatched,
                   dupLoaded, cancelled, sigPc, sched, logClosed>>
    /\ UNCHANGED sweepVars
    /\ UNCHANGED tailVars
    /\ UNCHANGED watchVars
    /\ UNCHANGED auxVars

\* case <-globalCtx.Done(): watcher.Close(); then shutdownWg.Wait().
ObserveDone ==
    /\ mainPc = "select"
    /\ cancelled
    /\ mainPc' = "drain"
    /\ UNCHANGED <<eventName, processedFiles, sem, running, dispatched,
                   dupLoaded, cancelled, sigPc, sched, logClosed>>
    /\ UNCHANGED sweepVars
    /\ UNCHANGED tailVars
    /\ UNCHANGED watchVars
    /\ UNCHANGED auxVars

\* shutdownWg counts the three scheduler goroutines and nothing else.
WaitGroupDone == \A s \in Schedulers : sched[s] = "exited"

\* shutdownWg.Wait() returns; main returns; the deferred closeLogging runs.
MainReturn ==
    /\ mainPc = "drain"
    /\ WaitGroupDone
    /\ mainPc' = "returned"
    /\ logClosed' = TRUE
    /\ UNCHANGED <<eventName, processedFiles, sem, running, dispatched,
                   dupLoaded, cancelled, sigPc, sched>>
    /\ UNCHANGED sweepVars
    /\ UNCHANGED tailVars
    /\ UNCHANGED watchVars
    /\ UNCHANGED auxVars

----------------------------------------------------------------------------
(* The entries the Swap Sweep scheduler writes with logOutput.             *)

\* An entry: what it reports on ("scheduler", "pass", "listing", "swap"),
\* the mark its text begins with ("error" for the cross mark, "ok" for the
\* check mark, "stop" for the stop marks, "warn", "info") and the branch
\* that wrote it.
Entry(about, mark, branch) == [about |-> about, mark |-> mark, branch |-> branch]

NoEntry == Entry("none", "none", "none")

\* The entry written after cmd.CombinedOutput() returned: every branch under
\* "if err != nil" (deadline exceeded, canceled, any other error) begins
\* with the cross mark, the else branch with the check mark.
ResultEntry(about, how) ==
    Entry(about, IF how = "ok" THEN "ok" ELSE "error", how)

----------------------------------------------------------------------------
(* The scheduler goroutines, seen from the supervisor.                     *)

\* Faulty variant: the price ticker's select has no Done case.
SchedCanExitNoPrice(s) == sched[s] = "wait" /\ cancelled /\ s # "price"

\* select { case <-globalCtx.Done(): return ... }: both in the initial wait
\* and in the ticker loop.
SchedCanExit(s) == sched[s] = "wait" /\ cancelled

SchedExit(s) ==
    /\ ProcessAlive
    /\ SchedCanExit(s)
    /\ sched' = [sched EXCEPT ![s] = "exited"]
    /\ UNCHANGED <<mainPc, eventName, processedFiles, sem, running,
                   dispatched, dupLoaded, cancelled, sigPc, logClosed>>
    /\ UNCHANGED sweepVars
    /\ UNCHANGED tailVars
    /\ UNCHANGED watchVars
    /\ swapLog' = IF s = "swap" THEN Entry("scheduler", "stop", "canceled")
                              ELSE swapLog
    /\ UNCHANGED <<listFailed, banStat, banChecked>>
    /\ UNCHANGED <<earlyVars, otherLate>>

\* The timer case of the select fires and a pass begins.  executeJupSwap
\* returns at once when globalCtx is already done.
PassStart(s) ==
    /\ ProcessAlive
    /\ sched[s] = "wait"
    /\ s = "swap" => ~cancelled
    /\ sched' = [sched EXCEPT ![s] = "pass"]
    /\ UNCHANGED <<mainPc, eventName, processedFiles, sem, running,
                   dispatched, dupLoaded, cancelled, sigPc, logClosed>>
    /\ UNCHANGED sweepVars
    /\ UNCHANGED tailVars
    /\ UNCHANGED watchVars
    /\ UNCHANGED auxVars

\* The pass returns to the ticker loop.
PassEnd(s) ==
    /\ ProcessAlive
    /\ sched[s] = "pass"
    /\ sched' = [sched EXCEPT ![s] = "wait"]
    /\ UNCHANGED <<mainPc, eventName, processedFiles, sem, running,
                   dispatched, dupLoaded, cancelled, sigPc, logClosed>>
    /\ UNCHANGED sweepVars
    /\ UNCHANGED tailVars
    /\ UNCHANGED watchVars
    /\ UNCHANGED auxVars

----------------------------------------------------------------------------
(* External actions: subprocesses run with cmd.CombinedOutput().           *)

\* Faulty variant: every subprocess is bound to the global context.
UsesContextAll(a) == TRUE

\* Faulty variant: no subprocess is bound to the global context.
UsesContextNone(a) == FALSE

\* The action is built with exec.CommandContext on a context derived from
\* globalCtx with a 30 s timeout (./jupSwap, both uses); the others are built
\* with exec.Command and have no context.
UsesContext(a) == a \in {"listing", "swap"}

\* How a running subprocess can end now: it exits with code zero or not; one
\* bound to a context is also killed when its 30 s deadline passes, or when
\* globalCtx is cancelled.
Ends(a) ==
    {"ok", "fail"}
        \cup (IF UsesContext(a) THEN {"timeout"} ELSE {})
        \cup (IF UsesContext(a) /\ cancelled THEN {"canceled"} ELSE {})

\* cmd.CombinedOutput() is called: the subprocess starts, unless its context
\* is already done, in which case Start returns the context's error.
Starts(a) == ~(UsesContext(a) /\ cancelled)

Invoke(a) ==
    /\ act' = [act EXCEPT ![a] = IF Starts(a) THEN "running" ELSE "idle"]
    /\ outcome' = [outcome EXCEPT ![a] = IF Starts(a) THEN "none" ELSE "canceled"]
    /\ inFlightAtCancel' = inFlightAtCancel \ {a}

\* cmd.CombinedOutput() returns.
Finish(a, how) ==
    /\ act[a] = "running"
    /\ how \in Ends(a)
    /\ act' = [act EXCEPT ![a] = "idle"]
    /\ outcome' = [outcome EXCEPT ![a] = how]
    /\ UNCHANGED inFlightAtCancel

\* The caller has logged the result and moves on.
Logged(a) ==
    /\ outcome' = [outcome EXCEPT ![a] = "none"]
    /\ inFlightAtCancel' = inFlightAtCancel \ {a}

----------------------------------------------------------------------------
(* A dispatch worker's external action, processNewJSONFile.                *)

\* exec.Command("npx", "ts-node", "addLiquidity.ts", ...).CombinedOutput()
\* is called by a dispatch goroutine (one that main started before it left
\* its loop, so also after the cancellation).
ProvisionStart ==
    /\ ProcessAlive
    /\ act["provision"] = "idle"
    /\ Invoke("provision")
    /\ UNCHANGED <<supVars, passLen, idx, swapInvoked>>
    /\ UNCHANGED <<claimDoc, tokVars>>
    /\ UNCHANGED tailVars
    /\ UNCHANGED watchVars
    /\ UNCHANGED auxVars

ProvisionFinish(how) ==
    /\ ProcessAlive
    /\ Finish("provision", how)
    /\ UNCHANGED <<supVars, passLen, idx, swapInvoked>>
    /\ UNCHANGED <<claimDoc, tokVars>>
    /\ UNCHANGED tailVars
    /\ UNCHANGED watchVars
    /\ UNCHANGED auxVars

----------------------------------------------------------------------------
(* Price Refresh: executePriceFetch.                                       *)

\* The pass begins with n documents that have a token address, and
\* fetchPriceForToken runs for the first; with none it returns at once.
PriceBegin(n) ==
    /\ ProcessAlive
    /\ sched["price"] = "wait"
    /\ n \in 1..MaxItems
    /\ passLen' = [passLen EXCEPT !["price"] = n]
    /\ idx' = [idx EXCEPT !["price"] = 1]
    /\ Invoke("price")
    /\ sched' = [sched EXCEPT !["price"] = "exec"]
    /\ UNCHANGED <<mainPc, eventName, processedFiles, sem, running, dispatched,
                   dupLoaded, cancelled, sigPc, logClosed>>
    /\ UNCHANGED swapInvoked
    /\ UNCHANGED <<claimDoc, tokVars>>
    /\ UNCHANGED tailVars
    /\ UNCHANGED watchVars
    /\ UNCHANGED auxVars

\* fetchPrice.ts exits; then time.Sleep(1100ms).
PriceFinish(how) ==
    /\ ProcessAlive
    /\ sched["price"] = "exec"
    /\ Finish("price", how)
    /\ sched' = [sched EXCEPT !["price"] = "sleep"]
    /\ UNCHANGED <<mainPc, eventName, processedFiles, sem, running, dispatched,
                   dupLoaded, cancelled, sigPc, logClosed>>
    /\ UNCHANGED <<passLen, idx, swapInvoked>>
    /\ UNCHANGED <<claimDoc, tokVars>>
    /\ UNCHANGED tailVars
    /\ UNCHANGED watchVars
    /\ UNCHANGED auxVars

\* The sleep ends: the range loop takes the next document, with no look at
\* globalCtx, or the pass is complete.
PriceNext ==
    /\ ProcessAlive
    /\ sched["price"] = "sleep"
    /\ IF idx["price"] < passLen["price"]
         THEN /\ idx' = [idx EXCEPT !["price"] = @ + 1]
              /\ Invoke("price")
              /\ UNCHANGED <<sched, passLen>>
         ELSE /\ idx' = [idx EXCEPT !["price"] = 0]
              /\ passLen' = [passLen EXCEPT !["price"] = 0]
              /\ Logged("price")
              /\ sched' = [sched EXCEPT !["price"] = "wait"]
              /\ UNCHANGED act
    /\ UNCHANGED <<mainPc, eventName, processedFiles, sem, running, dispatched,
                   dupLoaded, cancelled, sigPc, logClosed>>
    /\ UNCHANGED swapInvoked
    /\ UNCHANGED <<claimDoc, tokVars>>
    /\ UNCHANGED tailVars
    /\ UNCHANGED watchVars
    /\ UNCHANGED auxVars

----------------------------------------------------------------------------
(* The documents of the State Store as the readers decode them.            *)

\* The fields read through both levels.
FieldKeys == {"positionAddress", "ca", "poolName"}

\* The value found under a key: none, a JSON string, or a JSON value of
\* another type.
Absent == [t |-> "absent", s |-> ""]

JStr(str) == [t |-> "string", s |-> str]

JOther == [t |-> "number", s |-> ""]

NoFields == [k \in FieldKeys |-> Absent]

\* A document file: one that json.Unmarshal decodes into a map, with its
\* top-level fields, the type of its "data" value and the fields under it;
\* or one that cannot be read or decoded.
Unreadable ==
    [kind |-> "unreadable", top |-> NoFields, dataKind |-> "absent",
     data |-> NoFields]

JsonDoc(key, top, dataKind, nested) ==
    [kind |-> "object",
     top |-> [NoFields EXCEPT ![key] = top],
     dataKind |-> dataKind,
     data |-> [NoFields EXCEPT ![key] = nested]]

\* The documents tried: for each key every combination of a top-level value
\* and a value under data, and the documents whose data is missing or is
\* not an object.
LeafChoices == {Absent, JStr(""), JOther}

DocChoices ==
    {Unreadable}
    \cup {JsonDoc(key, top, "object", nested) :
              key \in FieldKeys,
              top \in LeafChoices \cup {JStr("TOP")},
              nested \in LeafChoices \cup {JStr("NESTED")}}
    \cup {JsonDoc(key, top, dataKind, Absent) :
              key \in FieldKeys,
              top \in LeafChoices \cup {JStr("TOP")},
              dataKind \in {"absent", "other"}}

\* Faulty variant: the value under data is looked at first.
ReadFieldNestedFirst(doc, key) ==
    IF doc.kind # "object"
      THEN ""
      ELSE IF /\ doc.dataKind = "object"
              /\ doc.data[key].t = "string"
              /\ doc.data[key].s # ""
        THEN doc.data[key].s
        ELSE IF doc.top[key].t = "string" /\ doc.top[key].s # ""
          THEN doc.top[key].s
          ELSE ""

\* The body the three readers share: "" when the file cannot be read or
\* decoded; obj[key].(string) when it is a non-empty string; else
\* obj["data"].(map)[key].(string) when that is a non-empty string; else "".
ReadField(doc, key) ==
    IF doc.kind # "object"
      THEN ""
      ELSE IF doc.top[key].t = "string" /\ doc.top[key].s # ""
        THEN doc.top[key].s
        ELSE IF /\ doc.dataKind = "object"
                /\ doc.data[key].t = "string"
                /\ doc.data[key].s # ""
          THEN doc.data[key].s
          ELSE ""

\* Faulty variant: every document is taken to have a position.
readPositionAlways(doc) == "POS"

readPositionFromPoolJSON(doc) == ReadField(doc, "positionAddress")

readTokenContractAddressFromPoolJSON(doc) == ReadField(doc, "ca")

readPoolNameFromPoolJSON(doc) == ReadField(doc, "poolName")

\* An entry of os.ReadDir(dataDir): a .json file with its document, or a
\* directory or other file.
DirEntry(json, doc) == [json |-> json, doc |-> doc]

DirEntries == {DirEntry(TRUE, doc) : doc \in DocChoices}
                  \cup {DirEntry(FALSE, Unreadable)}

\* A document with a top-level positionAddress, or one without any.
PlainEntry(hasPosition) ==
    DirEntry(TRUE, JsonDoc("positionAddress",
                           IF hasPosition THEN JStr("TOP") ELSE Absent,
                           "absent", Absent))

----------------------------------------------------------------------------
(* Reward Harvest: executeGlobalClaimRewards.                              *)

\* The pass begins: os.ReadDir lists n entries.
ClaimBegin(n) ==
    /\ ProcessAlive
    /\ sched["claim"] = "wait"
    /\ n \in 1..MaxItems
    /\ passLen' = [passLen EXCEPT !["claim"] = n]
    /\ idx' = [idx EXCEPT !["claim"] = 0]
    /\ sched' = [sched EXCEPT !["claim"] = "loop"]
    /\ UNCHANGED <<mainPc, eventName, processedFiles, sem, running, dispatched,
                   dupLoaded, cancelled, sigPc, logClosed>>
    /\ UNCHANGED <<extVars, swapInvoked>>
    /\ UNCHANGED <<claimDoc, tokVars>>
    /\ UNCHANGED tailVars
    /\ UNCHANGED watchVars
    /\ UNCHANGED auxVars

\* The next entry.  A directory or a file that is not .json is passed over.
\* The document is read; without positionAddress it is passed over.
\* Otherwise runClaimRewards reads the document again (it is "again" by
\* then): without positionAddress it returns, with one it runs
\* claimAllRewards.ts.  No look at globalCtx.
ClaimItem(entry, again) ==
    /\ ProcessAlive
    /\ sched["claim"] = "loop"
    /\ idx["claim"] < passLen["claim"]
    /\ idx' = [idx EXCEPT !["claim"] = @ + 1]
    /\ IF entry.json /\ readPositionFromPoolJSON(entry.doc) # ""
         THEN /\ claimDoc' = again
              /\ IF readPositionFromPoolJSON(again) # ""
                   THEN /\ Invoke("harvest")
                        /\ sched' = [sched EXCEPT !["claim"] = "exec"]
                   ELSE /\ Logged("harvest")
                        /\ UNCHANGED <<act, sched>>
         ELSE /\ claimDoc' = entry.doc
              /\ Logged("harvest")
              /\ UNCHANGED <<act, sched>>
    /\ UNCHANGED <<mainPc, eventName, processedFiles, sem, running, dispatched,
                   dupLoaded, cancelled, sigPc, logClosed>>
    /\ UNCHANGED <<passLen, swapInvoked>>
    /\ UNCHANGED tokVars
    /\ UNCHANGED tailVars
    /\ UNCHANGED watchVars
    /\ UNCHANGED auxVars

\* Faulty variant: a failed harvest ends the range loop.
AfterHarvestBreakOnFail(i, n, how) == IF how = "ok" THEN i ELSE n

\* The position of the range loop after runClaimRewards returns: the error
\* is logged, true is returned and the caller drops it, so the loop goes on
\* from where it is.
AfterHarvest(i, n, how) == i

\* claimAllRewards.ts exits; a failure is logged and the loop goes on.
ClaimFinish(how) ==
    /\ ProcessAlive
    /\ sched["claim"] = "exec"
    /\ Finish("harvest", how)
    /\ sched' = [sched EXCEPT !["claim"] = "loop"]
    /\ idx' = [idx EXCEPT !["claim"] = AfterHarvest(@, passLen["claim"], how)]
    /\ claimDoc' = Unreadable
    /\ UNCHANGED <<mainPc, eventName, processedFiles, sem, running, dispatched,
                   dupLoaded, cancelled, sigPc, logClosed>>
    /\ UNCHANGED <<passLen, swapInvoked>>
    /\ UNCHANGED tokVars
    /\ UNCHANGED tailVars
    /\ UNCHANGED watchVars
    /\ UNCHANGED auxVars

\* The range loop is over.
ClaimEnd ==
    /\ ProcessAlive
    /\ sched["claim"] = "loop"
    /\ idx["claim"] = passLen["claim"]
    /\ idx' = [idx EXCEPT !["claim"] = 0]
    /\ passLen' = [passLen EXCEPT !["claim"] = 0]
    /\ Logged("harvest")
    /\ sched' = [sched EXCEPT !["claim"] = "wait"]
    /\ claimDoc' = Unreadable
    /\ UNCHANGED <<mainPc, eventName, processedFiles, sem, running, dispatched,
                   dupLoaded, cancelled, sigPc, logClosed>>
    /\ UNCHANGED <<act, swapInvoked>>
    /\ UNCHANGED tokVars
    /\ UNCHANGED tailVars
    /\ UNCHANGED watchVars
    /\ UNCHANGED auxVars

----------------------------------------------------------------------------
(* The blacklist and the output of the holdings listing, as text.          *)

\* A text is a sequence of symbols: a symbol is a separator character or a
\* whole word without separators in it.  ADDRA, ADDRB, ADDRC stand for
\* base58 addresses of 40 bytes, TOKA, TOKB, TOKC are the 4-byte words
\* themselves.
LongWords == {"ADDRA", "ADDRB", "ADDRC"}

ShortWords == {"TOKA", "TOKB", "TOKC"}

\* len() of a symbol in bytes; the full-width comma takes three in UTF-8.
Width(c) ==
    IF c \in LongWords THEN 40
    ELSE IF c \in ShortWords THEN 4
    ELSE IF c = "FWCOMMA" THEN 3
    ELSE 1

RECURSIVE ByteLen(_)
ByteLen(text) ==
    IF text = << >> THEN 0 ELSE Width(Head(text)) + ByteLen(Tail(text))

\* if len(tokenAddress) >= 32 && len(tokenAddress) <= 44
MinAddressLen == 32

MaxAddressLen == 44

\* The white space strings.TrimSpace removes: the space and the newline
\* (NL), each one byte.
WhiteSpace == {" ", "NL"}

RECURSIVE TrimLeft(_)
TrimLeft(text) ==
    IF text # << >> /\ Head(text) \in WhiteSpace
      THEN TrimLeft(Tail(text))
      ELSE text

RECURSIVE TrimRight(_)
TrimRight(text) ==
    IF text # << >> /\ text[Len(text)] \in WhiteSpace
      THEN TrimRight(SubSeq(text, 1, Len(text) - 1))
      ELSE text

Range(seq) == {seq[i] : i \in 1..Len(seq)}

\* strings.TrimSpace
TrimSpace(text) == TrimRight(TrimLeft(text))

\* strings.ReplaceAll(line, full-width comma, ",")
ReplaceAll(text) ==
    [i \in 1..Len(text) |-> IF text[i] = "FWCOMMA" THEN "," ELSE text[i]]

\* strings.Index(text, ","), counted in symbols from 1; 0 when there is none.
IndexComma(text) ==
    IF \E i \in 1..Len(text) : text[i] = ","
      THEN CHOOSE i \in 1..Len(text) :
               text[i] = "," /\ \A j \in 1..(i - 1) : text[j] # ","
      ELSE 0

\* strings.Split(text, ",")
RECURSIVE Split(_)
Split(text) ==
    LET i == IndexComma(text)
    IN  IF i = 0
          THEN <<text>>
          ELSE <<SubSeq(text, 1, i - 1)>> \o Split(SubSeq(text, i + 1, Len(text)))

\* Faulty variant: only the ASCII comma separates the entries.
readBanListAsciiOnly(content) ==
    LET line == TrimSpace(content)
        addresses == Split(line)
    IN  IF line = << >>
          THEN {}
          ELSE {TrimSpace(addresses[i]) : i \in 1..Len(addresses)} \ {<< >>}

\* Faulty variant: the pieces are taken as they are, with their padding.
readBanListUntrimmed(content) ==
    LET line == TrimSpace(content)
        addresses == Split(ReplaceAll(line))
    IN  IF line = << >>
          THEN {}
          ELSE {addresses[i] : i \in 1..Len(addresses)} \ {<< >>}

\* readBanList on a file that exists and can be read: the non-empty trimmed
\* pieces between commas of either kind.
readBanList(content) ==
    LET line == TrimSpace(content)
        addresses == Split(ReplaceAll(line))
    IN  IF line = << >>
          THEN {}
          ELSE {TrimSpace(addresses[i]) : i \in 1..Len(addresses)} \ {<< >>}

\* Faulty variant: an address of any length is taken.
ValidLengthAny(n) == TRUE

\* len(tokenAddress) >= 32 && len(tokenAddress) <= 44
ValidLength(n) == n >= MinAddressLen /\ n <= MaxAddressLen

\* A line of the listing's output: whether it holds the marker of a token
\* line, and the text after the marker (parts[1]).
OutLine(marker, after) == [marker |-> marker, after |-> after]

\* The loop over the lines of parseTokenAddressesFromOutput, from line i on.
RECURSIVE ParseLines(_, _, _)
ParseLines(lines, i, ban) ==
    IF i > Len(lines)
      THEN << >>
      ELSE LET tokenPart == TrimSpace(lines[i].after)
               commaIndex == IndexComma(tokenPart) - 1
               tokenAddress == TrimSpace(SubSeq(tokenPart, 1, commaIndex))
               rest == ParseLines(lines, i + 1, ban)
           IN  IF /\ lines[i].marker
                  /\ commaIndex > 0
                  /\ ValidLength(ByteLen(tokenAddress))
                  /\ tokenAddress \notin ban
                 THEN <<tokenAddress>> \o rest
                 ELSE rest

\* Faulty variant: the blacklist is not looked at.
parseTokenAddressesUnfiltered(output, ban) == ParseLines(output, 1, {})

parseTokenAddressesFromOutput(output, ban) == ParseLines(output, 1, ban)

\* The blacklist files and the output lines tried.
BanChoices ==
    { << >>,
      <<"ADDRA", ",", "ADDRB">>,
      <<"ADDRA", "FWCOMMA", "ADDRB">>,
      <<" ", "ADDRA", " ", ",", " ">>,
      <<"TOKA", ",", "TOKB">>,
      <<"ADDRA", "ADDRB">>,
      <<"ADDRC", " ", "ADDRA">>,
      <<"ADDRA", ",", "ADDRB", "NL">> }

LineChoices ==
    { OutLine(TRUE, <<" ", "ADDRA", ",", " ">>),
      OutLine(TRUE, <<" ", "ADDRB", ",">>),
      OutLine(TRUE, <<" ", "ADDRC", ",">>),
      OutLine(TRUE, <<" ", "TOKA", ",">>),
      OutLine(TRUE, <<" ", "TOKC", ",">>),
      OutLine(TRUE, <<" ", "ADDRC">>),
      OutLine(FALSE, <<"ADDRC", ",">>),
      OutLine(TRUE, <<"ADDRA", "ADDRC", ",">>),
      OutLine(TRUE, <<" ", ",", "ADDRC">>) }

\* The outputs of at most MaxItems lines.
Outputs == UNION {[1..n -> LineChoices] : n \in 0..MaxItems}

\* An output of n token lines, each with a well-formed address.
PlainOutput(n) == [i \in 1..n |-> OutLine(TRUE, <<" ", "ADDRC", ",">>)]

----------------------------------------------------------------------------
(* Swap Sweep: executeJupSwap.                                             *)

\* The pass begins: globalCtx is not done at the first check.
SwapBegin ==
    /\ ProcessAlive
    /\ sched["swap"] = "wait"
    /\ ~cancelled
    /\ sched' = [sched EXCEPT !["swap"] = "list"]
    /\ UNCHANGED <<mainPc, eventName, processedFiles, sem, running, dispatched,
                   dupLoaded, cancelled, sigPc, logClosed>>
    /\ UNCHANGED sweepVars
    /\ UNCHANGED tailVars
    /\ UNCHANGED watchVars
    /\ swapLog' = Entry("pass", "info", "begin")
    /\ UNCHANGED <<listFailed, banStat, banChecked>>
    /\ UNCHANGED <<earlyVars, otherLate>>

\* getTokenBalancesFromJupSwap runs ./jupSwap under a 30 s context; if it
\* does not start, the list is empty.
SwapList ==
    /\ ProcessAlive
    /\ sched["swap"] = "list"
    /\ Invoke("listing")
    /\ sched' = [sched EXCEPT !["swap"] = IF Starts("listing") THEN "listing" ELSE "loop"]
    /\ UNCHANGED <<mainPc, eventName, processedFiles, sem, running, dispatched,
                   dupLoaded, cancelled, sigPc, logClosed>>
    /\ UNCHANGED <<passLen, idx, swapInvoked>>
    /\ UNCHANGED <<claimDoc, tokVars>>
    /\ UNCHANGED tailVars
    /\ UNCHANGED watchVars
    /\ swapLog' = IF Starts("listing") THEN swapLog
                              ELSE ResultEntry("listing", "canceled")
    /\ UNCHANGED <<listFailed, banStat, banChecked>>
    /\ UNCHANGED <<earlyVars, otherLate>>

\* Faulty variant: the error of the listing is not looked at.
ListingErrNever(how) == FALSE

\* output, err := cmd.CombinedOutput(); if err != nil { ...; return
\* []string{} }: a non-zero exit, the 30 s deadline and the cancellation all
\* give an error.
ListingErr(how) == how # "ok"

\* readBanList: the empty map when os.Stat reports that the file does not
\* exist or os.ReadFile fails, otherwise the entries of its content.
readBanListFile(stat, content) ==
    IF stat = "exists" THEN readBanList(content) ELSE {}

\* The listing ends with the output out: on an error the list is empty,
\* otherwise readBanList reads the blacklist and the list holds the token
\* addresses parseTokenAddressesFromOutput finds in the output.
ListingFinish(how, out) ==
    /\ ProcessAlive
    /\ sched["swap"] = "listing"
    /\ Finish("listing", how)
    /\ IF ~ListingErr(how)
         THEN /\ banList' = readBanListFile(banStat, banFile)
              /\ listingOut' = out
              /\ tokenAddresses' =
                     parseTokenAddressesFromOutput(out,
                         readBanListFile(banStat, banFile))
              /\ banChecked' = Range(ParseLines(out, 1, {}))
              /\ swapLog' = Entry("listing", "info", "parsed")
         ELSE /\ banList' = {}
              /\ listingOut' = << >>
              /\ tokenAddresses' = << >>
              /\ banChecked' = {}
              /\ swapLog' = ResultEntry("listing", how)
    /\ listFailed' = (how \in {"fail", "timeout"})
    /\ UNCHANGED banStat
    /\ passLen' = [passLen EXCEPT !["swap"] = Len(tokenAddresses')]
    /\ sched' = [sched EXCEPT !["swap"] = "loop"]
    /\ UNCHANGED <<banFile, passed, claimDoc>>
    /\ UNCHANGED <<mainPc, eventName, processedFiles, sem, running, dispatched,
                   dupLoaded, cancelled, sigPc, logClosed>>
    /\ UNCHANGED <<idx, swapInvoked>>
    /\ UNCHANGED tailVars
    /\ UNCHANGED watchVars
    /\ UNCHANGED <<earlyVars, otherLate>>

\* The list is empty and executeJupSwap returns; or, at the top of the loop
\* body, the range is exhausted, or globalCtx is done and executeJupSwap
\* returns, or the next token is taken.
SwapLoop ==
    /\ ProcessAlive
    /\ sched["swap"] = "loop"
    /\ IF idx["swap"] = passLen["swap"] \/ cancelled
         THEN /\ sched' = [sched EXCEPT !["swap"] = "wait"]
              /\ idx' = [idx EXCEPT !["swap"] = 0]
              /\ passLen' = [passLen EXCEPT !["swap"] = 0]
              /\ swapInvoked' = 0
              /\ banList' = {}
              /\ listingOut' = << >>
              /\ tokenAddresses' = << >>
              /\ passed' = << >>
              /\ UNCHANGED banFile
         ELSE /\ sched' = [sched EXCEPT !["swap"] = "token"]
              /\ idx' = [idx EXCEPT !["swap"] = @ + 1]
              /\ UNCHANGED <<passLen, swapInvoked, tokVars>>
    /\ Logged("listing")
    /\ UNCHANGED claimDoc
    /\ UNCHANGED <<mainPc, eventName, processedFiles, sem, running, dispatched,
                   dupLoaded, cancelled, sigPc, logClosed>>
    /\ UNCHANGED act
    /\ UNCHANGED tailVars
    /\ UNCHANGED watchVars
    /\ swapLog' = IF passLen["swap"] = 0
                     THEN Entry("pass", "warn", "empty")
                     ELSE IF idx["swap"] = passLen["swap"]
                       THEN Entry("pass", "ok", "complete")
                       ELSE IF cancelled
                         THEN Entry("pass", "stop", "canceled")
                         ELSE Entry("pass", "info", "item")
    /\ UNCHANGED <<listFailed, banStat, banChecked>>
    /\ UNCHANGED <<earlyVars, otherLate>>

\* executeJupSwapForToken: its own check of globalCtx; when done it returns
\* without building the command.
SwapToken ==
    /\ ProcessAlive
    /\ sched["swap"] = "token"
    /\ sched' = [sched EXCEPT !["swap"] = IF cancelled THEN "delay" ELSE "start"]
    /\ UNCHANGED <<mainPc, eventName, processedFiles, sem, running, dispatched,
                   dupLoaded, cancelled, sigPc, logClosed>>
    /\ UNCHANGED sweepVars
    /\ UNCHANGED tailVars
    /\ UNCHANGED watchVars
    /\ swapLog' = IF cancelled THEN Entry("swap", "stop", "canceled")
                              ELSE swapLog
    /\ UNCHANGED <<listFailed, banStat, banChecked>>
    /\ UNCHANGED <<earlyVars, otherLate>>

\* exec.CommandContext(ctx, "./jupSwap", "-input", ca, ...).CombinedOutput().
SwapStart ==
    /\ ProcessAlive
    /\ sched["swap"] = "start"
    /\ Invoke("swap")
    /\ swapInvoked' = IF Starts("swap") THEN swapInvoked + 1 ELSE swapInvoked
    /\ passed' = IF Starts("swap")
                   THEN Append(passed, tokenAddresses[idx["swap"]])
                   ELSE passed
    /\ UNCHANGED <<banFile, banList, listingOut, tokenAddresses, claimDoc>>
    /\ sched' = [sched EXCEPT !["swap"] = IF Starts("swap") THEN "exec" ELSE "delay"]
    /\ UNCHANGED <<mainPc, eventName, processedFiles, sem, running, dispatched,
                   dupLoaded, cancelled, sigPc, logClosed>>
    /\ UNCHANGED <<passLen, idx>>
    /\ UNCHANGED tailVars
    /\ UNCHANGED watchVars
    /\ swapLog' = IF Starts("swap") THEN swapLog
                              ELSE ResultEntry("swap", "canceled")
    /\ UNCHANGED <<listFailed, banStat, banChecked>>
    /\ UNCHANGED <<earlyVars, otherLate>>

\* ./jupSwap ends: exit, 30 s deadline, or killed through the context.
SwapFinish(how) ==
    /\ ProcessAlive
    /\ sched["swap"] = "exec"
    /\ Finish("swap", how)
    /\ sched' = [sched EXCEPT !["swap"] = "delay"]
    /\ UNCHANGED <<mainPc, eventName, processedFiles, sem, running, dispatched,
                   dupLoaded, cancelled, sigPc, logClosed>>
    /\ UNCHANGED <<passLen, idx, swapInvoked>>
    /\ UNCHANGED <<claimDoc, tokVars>>
    /\ UNCHANGED tailVars
    /\ UNCHANGED watchVars
    /\ swapLog' = ResultEntry("swap", how)
    /\ UNCHANGED <<listFailed, banStat, banChecked>>
    /\ UNCHANGED <<earlyVars, otherLate>>

\* select { case <-globalCtx.Done(): return; case <-time.After(2s): }.
SwapDelay(viaDone) ==
    /\ ProcessAlive
    /\ sched["swap"] = "delay"
    /\ viaDone => cancelled
    /\ IF viaDone
         THEN /\ sched' = [sched EXCEPT !["swap"] = "wait"]
              /\ idx' = [idx EXCEPT !["swap"] = 0]
              /\ passLen' = [passLen EXCEPT !["swap"] = 0]
              /\ swapInvoked' = 0
              /\ banList' = {}
              /\ listingOut' = << >>
              /\ tokenAddresses' = << >>
              /\ passed' = << >>
              /\ UNCHANGED banFile
         ELSE /\ sched' = [sched EXCEPT !["swap"] = "loop"]
              /\ UNCHANGED <<idx, passLen, swapInvoked, tokVars>>
    /\ Logged("swap")
    /\ UNCHANGED claimDoc
    /\ UNCHANGED <<mainPc, eventName, processedFiles, sem, running, dispatched,
                   dupLoaded, cancelled, sigPc, logClosed>>
    /\ UNCHANGED act
    /\ UNCHANGED tailVars
    /\ UNCHANGED watchVars
    /\ swapLog' = IF viaDone THEN Entry("pass", "stop", "canceled")
                             ELSE swapLog
    /\ UNCHANGED <<listFailed, banStat, banChecked>>
    /\ UNCHANGED <<earlyVars, otherLate>>

----------------------------------------------------------------------------

----------------------------------------------------------------------------
(* The ledger tailer: getLineCount, processNewLines, parseCSVRecord.       *)

\* A line of the ledger file: a line that the csv reader parses into the
\* fields of one record, an empty line, or a line that the csv reader
\* rejects (a bare quote).
RowLine(fields) == [kind |-> "row", fields |-> fields]

BlankLine == [kind |-> "blank", fields |-> << >>]

BadLine == [kind |-> "bad", fields |-> << >>]

\* The header lists a ledger can start with.
HeaderChoices == {<<"poolAddress", "ca">>, <<"ca", "poolAddress">>}

\* The records that can be appended: full rows, a row with an empty first or
\* second field, a short row and a long one.
RowChoices ==
    { <<"P1", "T1">>, <<"P2", "T1">>, <<"T1", "P2">>, <<"", "T1">>, <<"T1", "">>,
      <<"T1">>, <<"P2", "T1", "X">> }

Lines == {RowLine(f) : f \in RowChoices} \cup {BlankLine, BadLine}

\* Largest number of lines of the ledger, the header line included.
MaxLines == 4

Min(a, b) == IF a < b THEN a ELSE b

\* getLineCount: bufio.Scanner counts every line of the file, empty or not.
getLineCount(file) == Len(file)

\* The records csv.Reader.Read returns, in order, until io.EOF: one per line,
\* except that the reader passes over empty lines.
CsvRecords(file) == SelectSeq(file, LAMBDA l : l.kind # "blank")

\* For each record csv.Reader.Read returns, the line of the file it is on.
RecordLines(file) ==
    SelectSeq([i \in 1..Len(file) |-> i], LAMBDA i : file[i].kind # "blank")

\* parseCSVRecord: data[csvHeaders[i]] = record[i] for the positions both
\* have (a later column of the same name overwrites an earlier one); nil when
\* data has no non-empty poolAddress.
parseCSVRecord(record) ==
    LET n == Min(Len(record), Len(csvHeaders))
        keys == {csvHeaders[i] : i \in 1..n}
        last(h) == CHOOSE i \in 1..n :
                       /\ csvHeaders[i] = h
                       /\ \A j \in 1..n : csvHeaders[j] = h => j <= i
        data == [h \in keys |-> record[last(h)]]
        poolAddress == IF "poolAddress" \in keys THEN data["poolAddress"] ELSE ""
    IN  IF poolAddress = ""
          THEN [isNil |-> TRUE, PoolAddress |-> "", Data |-> data]
          ELSE [isNil |-> FALSE, PoolAddress |-> poolAddress, Data |-> data]

\* The document's file name: <poolAddress>.json, or row_<unix time>_<lineNum>.json
\* for an empty poolAddress (the time is left out).
DocName(poolAddress, lineNum) ==
    IF poolAddress = "" THEN [pool |-> "", line |-> lineNum]
                        ELSE [pool |-> poolAddress, line |-> 0]

\* Faulty variant: an existing document keeps the fields that the new
\* content does not have.
WriteFileMerging(files, name, doc) ==
    [f \in DOMAIN files \cup {name} |->
        IF f # name THEN files[f]
        ELSE IF name \notin DOMAIN files THEN doc
        ELSE [k \in DOMAIN files[name] \cup DOMAIN doc |->
                 IF k \in DOMAIN doc THEN doc[k] ELSE files[name][k]]]

\* os.WriteFile(jsonFilePath, jsonData, 0644): create or replace.
WriteFile(files, name, doc) ==
    [f \in DOMAIN files \cup {name} |-> IF f = name THEN doc ELSE files[f]]

\* The loop "for { record, err := reader.Read() ... }" of processNewLines from
\* record i on.  st holds the State Store, the names written, the records
\* the loop has read, whether the goroutine has panicked, and the names for
\* which os.WriteFile returns an error during this call.
RECURSIVE ProcessFrom(_, _, _, _)
ProcessFrom(recs, i, lineNum, st) ==
    IF i > Len(recs)
      THEN st
      ELSE LET read == [st EXCEPT !.read = @ \cup {i}]
           IN  IF recs[i].kind = "bad" \/ Len(recs[i].fields) < 1
                 THEN ProcessFrom(recs, i + 1, lineNum + 1, read)
                 ELSE LET record == recs[i].fields
                          profitData == parseCSVRecord(record)
                      IN  IF profitData.isNil
                            \* profitData.PoolAddress on a nil *ProfitData
                            THEN [read EXCEPT !.panicked = TRUE]
                            ELSE LET name == DocName(profitData.PoolAddress, lineNum)
                                     out == [poolAddress |-> profitData.PoolAddress,
                                             headers |-> csvHeaders,
                                             record |-> record,
                                             data |-> profitData.Data]
                                 IN  IF name \in st.failing
                                       \* err = os.WriteFile(...); continue
                                       THEN ProcessFrom(recs, i + 1, lineNum + 1, read)
                                       ELSE ProcessFrom(recs, i + 1, lineNum + 1,
                                                [read EXCEPT !.store = WriteFile(@, name, out),
                                                             !.wrote = @ \cup {name}])

\* processNewLines: when os.Open fails it returns at once; otherwise
\* lastLineCount records are read and dropped (io.EOF among them ends the
\* call), then the rest are processed.
processNewLines(file, lastLineCount, opens, st) ==
    LET recs == CsvRecords(file)
    IN  IF ~opens \/ Len(recs) < lastLineCount
          THEN st
          ELSE ProcessFrom(recs, lastLineCount + 1, lastLineCount + 1, st)

\* The names of the documents that rows of RowChoices give.
PoolDocNames == {DocName(p, 0) : p \in {"P1", "P2", "T1"}}

\* The document has a populated top-level positionAddress.
HasPosition(doc) ==
    "positionAddress" \in DOMAIN doc /\ doc.positionAddress # ""

\* The provisioning action, at the end of a successful run for the pool of
\* an existing document: it reads the document, sets json.positionAddress,
\* sets json.data.positionAddress too when data is an object, and writes the
\* document back.
ProvisionWrite(name) ==
    /\ ProcessAlive
    /\ name \in DOMAIN store
    /\ name.pool # ""
    /\ LET json == store[name]
           data == [k \in DOMAIN json.data \cup {"positionAddress"} |->
                       IF k = "positionAddress" THEN "POS" ELSE json.data[k]]
           doc == [k \in DOMAIN json \cup {"positionAddress"} |->
                       IF k = "positionAddress" THEN "POS"
                       ELSE IF k = "data" THEN data
                       ELSE json[k]]
       IN  store' = WriteFile(store, name, doc)
    /\ UNCHANGED <<ledger, csvHeaders, currentLineCount, cycle, scanned>>
    /\ UNCHANGED <<supVars, sweepVars>>
    /\ UNCHANGED watchVars
    /\ UNCHANGED auxVars

\* A line is appended to the ledger by its writer.
AppendLine(line) ==
    /\ mainPc = "select"
    /\ Len(ledger) < MaxLines
    /\ line \in Lines
    /\ ledger' = Append(ledger, line)
    /\ UNCHANGED <<csvHeaders, currentLineCount, store, cycle, scanned>>
    /\ UNCHANGED <<supVars, sweepVars>>
    /\ UNCHANGED watchVars
    /\ UNCHANGED auxVars

\* processNewLines is called once more with the lastLineCount of the last
\* tail cycle, over the lines that cycle had: what a run does that lost its
\* high-water mark after the documents were written.
Reprocess ==
    /\ mainPc \in {"select", "crashed"}
    /\ cycle.opened
    /\ ~cycle.again
    /\ cycle.upto > cycle.from
    /\ LET r == processNewLines(SubSeq(ledger, 1, cycle.upto), cycle.from, TRUE,
                    [store |-> store, wrote |-> {}, read |-> {},
                     panicked |-> FALSE, failing |-> {}])
       IN  /\ store' = r.store
           /\ mainPc' = IF r.panicked THEN "crashed" ELSE mainPc
    /\ cycle' = [cycle EXCEPT !.again = TRUE]
    /\ UNCHANGED <<ledger, csvHeaders, currentLineCount, scanned>>
    /\ UNCHANGED <<eventName, processedFiles, sem, running, dispatched,
                   dupLoaded, cancelled, sigPc, sched, logClosed>>
    /\ UNCHANGED sweepVars
    /\ UNCHANGED watchVars
    /\ UNCHANGED auxVars

\* main on a Write event of the ledger: the tail cycle.  counts and opens
\* say whether os.Open succeeds in getLineCount and in processNewLines,
\* failing names the documents for which os.WriteFile fails.  When
\* getLineCount fails main goes back to its select; otherwise it calls
\* processNewLines and then sets currentLineCount = newLineCount.
TailCycleWrites(counts, opens, failing) ==
    /\ mainPc = "select"
    /\ LET newLineCount == getLineCount(ledger)
           r == processNewLines(ledger, currentLineCount, opens,
                    [store |-> store, wrote |-> {}, read |-> {},
                     panicked |-> FALSE, failing |-> failing])
           lines == {RecordLines(ledger)[k] : k \in r.read}
       IN  /\ newLineCount > currentLineCount
           /\ IF counts
                THEN /\ store' = r.store
                     /\ cycle' = [from |-> currentLineCount,
                                  upto |-> newLineCount,
                                  opened |-> opens,
                                  scanned |-> lines,
                                  wrote |-> r.wrote,
                                  docs |-> r.store,
                                  again |-> FALSE,
                                  failing |-> failing]
                     /\ scanned' = scanned \cup lines
                     /\ mainPc' = IF r.panicked THEN "crashed" ELSE mainPc
                     /\ currentLineCount' = IF r.panicked THEN currentLineCount
                                                          ELSE newLineCount
                ELSE /\ cycle' = [from |-> currentLineCount,
                                  upto |-> newLineCount,
                                  opened |-> FALSE,
                                  scanned |-> {},
                                  wrote |-> {},
                                  docs |-> store,
                                  again |-> FALSE,
                                  failing |-> {}]
                     /\ UNCHANGED <<store, scanned, mainPc, currentLineCount>>
    /\ UNCHANGED <<ledger, csvHeaders>>
    /\ UNCHANGED <<eventName, processedFiles, sem, running, dispatched,
                   dupLoaded, cancelled, sigPc, sched, logClosed>>
    /\ UNCHANGED sweepVars
    /\ UNCHANGED watchVars
    /\ UNCHANGED auxVars

\* The tail cycle when every os.WriteFile succeeds.
TailCycle(counts, opens) == TailCycleWrites(counts, opens, {})

----------------------------------------------------------------------------
(* The schedulers on the wall clock: startPriceFetcherTicker,              *)
(* startGlobalClaimRewardsTicker and startJupSwapTicker, main.go:458-517,  *)
(* 731-772 and 799-846.  Time is counted in whole seconds; one scheduler   *)
(* (who) is followed, the three share nothing but the clock.               *)

\* Last instant of the clock that is explored.
Horizon == 130

\* The seconds of the minute at which a scheduler goroutine can begin.
StartSeconds == {0, 1, 2, 3, 6, 7, 31, 32, 33, 59}

\* now.Truncate(time.Minute).Add(time.Minute)
NextMinute(t) == (t - (t % 60)) + 60

\* if now.After(x) { x = x.Add(time.Minute) }
AfterAddsMinute(t, x) == IF t > x THEN x + 60 ELSE x

\* nextTarget of startPriceFetcherTicker: second 01 of the next minute.
PriceTarget(t) == AfterAddsMinute(t, NextMinute(t) + 1)

\* nextTarget of startJupSwapTicker: second 06 of the next minute.
SwapTarget(t) == AfterAddsMinute(t, NextMinute(t) + 6)

\* nextTarget of startGlobalClaimRewardsTicker: the earlier of nextTarget02
\* and nextTarget32, both computed from the next minute.
ClaimTarget(t) ==
    LET nextTarget02 == AfterAddsMinute(t, NextMinute(t) + 2)
        nextTarget32 == AfterAddsMinute(t, NextMinute(t) + 32)
    IN  IF nextTarget02 < nextTarget32 THEN nextTarget02 ELSE nextTarget32

FirstTarget(s, t) ==
    CASE s = "price" -> PriceTarget(t)
      [] s = "claim" -> ClaimTarget(t)
      [] s = "swap" -> SwapTarget(t)

\* time.NewTicker(1 * time.Minute) for the prices, time.NewTicker(1 *
\* time.Second) for the other two.
Period(s) == IF s = "price" THEN 60 ELSE 1

\* Faulty variant: the harvest ticker case tests only second == 2.
DueOnlyAtTwo(s, second) ==
    CASE s = "price" -> TRUE
      [] s = "claim" -> second = 2
      [] s = "swap" -> second = 6

\* What the ticker case does with a tick: the price loop runs a pass on every
\* tick; the others test now.Second() (2 or 32; 6).
Due(s, second) ==
    CASE s = "price" -> TRUE
      [] s = "claim" -> second \in {2, 32}
      [] s = "swap" -> second = 6

\* Faulty variant: the pass is started with a go statement.
BlocksNever(s) == FALSE

\* execute...() is called in the scheduler goroutine, which goes on only when
\* the pass has returned.
Blocks(s) == TRUE

\* The scheduler goroutine at time t, before its first select.
ClockAt(s, t) ==
    /\ who = s
    /\ startAt = t
    /\ now = t
    /\ tpc = "init"
    /\ target = FirstTarget(s, t)
    /\ nextTick = 0
    /\ tick = FALSE
    /\ passes = 0
    /\ inFlight = 0
    /\ startedNow = FALSE
    /\ carried = FALSE

\* A select of the goroutine has a case that is ready.
Ready == (tpc = "init" /\ now >= target) \/ (tpc = "select" /\ tick)

\* One second passes.  The goroutine takes a ready case within the second; a
\* tick that finds ticker.C full is dropped.
Advance ==
    /\ now < Horizon
    /\ ~Ready
    /\ now' = now + 1
    /\ startedNow' = FALSE
    /\ carried' = (passes > 0)
    /\ IF nextTick # 0 /\ now + 1 = nextTick
         THEN /\ tick' = TRUE
              /\ nextTick' = nextTick + Period(who)
         ELSE UNCHANGED <<tick, nextTick>>
    /\ UNCHANGED <<who, startAt, tpc, target, passes, inFlight>>
    /\ UNCHANGED <<supVars, watchVars, sweepVars, tailVars, lateVars,
                   actionVars, guardVars>>

\* case <-time.After(initialDelay): the first pass, "立即执行一次".
InitialFire ==
    /\ tpc = "init"
    /\ now >= target
    /\ passes' = passes + 1
    /\ startedNow' = TRUE
    /\ IF Blocks(who)
         THEN /\ tpc' = "pass"
              /\ UNCHANGED nextTick
         ELSE /\ tpc' = "select"
              /\ nextTick' = now + Period(who)
    /\ UNCHANGED <<who, startAt, now, target, tick, inFlight, carried>>
    /\ UNCHANGED <<supVars, watchVars, sweepVars, tailVars, lateVars,
                   actionVars, guardVars>>

\* A pass calls cmd.CombinedOutput() for its next item.
ItemStart ==
    /\ inFlight < passes
    /\ inFlight' = inFlight + 1
    /\ UNCHANGED <<who, startAt, now, tpc, target, nextTick, tick, passes,
                   startedNow, carried>>
    /\ UNCHANGED <<supVars, watchVars, sweepVars, tailVars, lateVars,
                   actionVars, guardVars>>

\* cmd.CombinedOutput() returns.
ItemEnd ==
    /\ inFlight > 0
    /\ inFlight' = inFlight - 1
    /\ UNCHANGED <<who, startAt, now, tpc, target, nextTick, tick, passes,
                   startedNow, carried>>
    /\ UNCHANGED <<supVars, watchVars, sweepVars, tailVars, lateVars,
                   actionVars, guardVars>>

\* execute...() returns; after the first pass the ticker is created.
PassReturn ==
    /\ inFlight < passes
    /\ passes' = passes - 1
    /\ IF tpc = "pass"
         THEN /\ tpc' = "select"
              /\ nextTick' = IF nextTick = 0 THEN now + Period(who)
                                             ELSE nextTick
         ELSE UNCHANGED <<tpc, nextTick>>
    /\ UNCHANGED <<who, startAt, now, target, tick, inFlight, startedNow,
                   carried>>
    /\ UNCHANGED <<supVars, watchVars, sweepVars, tailVars, lateVars,
                   actionVars, guardVars>>

\* case <-ticker.C
TickerCase ==
    /\ tpc = "select"
    /\ tick
    /\ tick' = FALSE
    /\ IF Due(who, now % 60)
         THEN /\ passes' = passes + 1
              /\ startedNow' = TRUE
              /\ tpc' = IF Blocks(who) THEN "pass" ELSE "select"
         ELSE UNCHANGED <<passes, startedNow, tpc>>
    /\ UNCHANGED <<who, startAt, now, target, nextTick, inFlight, carried>>
    /\ UNCHANGED <<supVars, watchVars, sweepVars, tailVars, lateVars,
                   actionVars, guardVars>>

----------------------------------------------------------------------------
(* The provisioning action, addLiquidity.ts main() (src/unnamed/part_002,  *)
(* 508-878) as run by processNewJSONFile, and the harvest action,          *)
(* claimAllRewards.ts, as run by runClaimRewards.                          *)

Pools == {"P1", "P2"}

\* Runs of the provisioning action that are followed.
Runs == {1, 2}

\* Largest number of positions opened on chain.
MaxPositions == 2

NoRun == [pool |-> "none", pc |-> "idle", pos |-> 0, added |-> FALSE,
          wrote |-> FALSE, exit |-> 0, log |-> "none"]

\* processNewJSONFile: err of cmd.CombinedOutput() is non-nil exactly when
\* the exit code is not zero; "if err != nil { log failure; return }".
Result(exit) == IF exit # 0 THEN "failure" ELSE "success"

\* main() of addLiquidity.ts wraps its whole body in try/catch, prints the
\* error and returns: the process ends with code 0 whether or not an error
\* was thrown.
ExitCode(threw) == 0

\* exec.Command("npx", "ts-node", "addLiquidity.ts", "--pool=...") is started
\* for pool p; when npx or ts-node cannot start the script the process ends
\* with a non-zero code before main() runs.
ProvStart(r, p, launches) ==
    /\ run[r].pc = "idle"
    /\ run' = [run EXCEPT ![r] =
                 IF launches
                   THEN [NoRun EXCEPT !.pool = p, !.pc = "setup"]
                   ELSE [NoRun EXCEPT !.pool = p, !.pc = "exited", !.exit = 1]]
    /\ UNCHANGED <<docs, onChain, env, harvest>>
    /\ UNCHANGED <<supVars, watchVars, sweepVars, tailVars, lateVars,
                   clockVars, guardVars>>

\* Environment checks, DLMM.create, the bin range, then
\* createExtendedEmptyPosition, sendTransaction and the confirmation loop.
\* Nothing in main() reads the pool document before the position is created.
\* A throw goes to the outer catch.
ProvCreate(r, ok) ==
    /\ run[r].pc = "setup"
    /\ IF ok
         THEN /\ onChain < MaxPositions
              /\ onChain' = onChain + 1
              /\ run' = [run EXCEPT ![r].pc = "created", ![r].pos = onChain + 1]
         ELSE /\ run' = [run EXCEPT ![r].pc = "exited",
                                    ![r].exit = ExitCode(TRUE)]
              /\ UNCHANGED onChain
    /\ UNCHANGED <<docs, env, harvest>>
    /\ UNCHANGED <<supVars, watchVars, sweepVars, tailVars, lateVars,
                   clockVars, guardVars>>

\* addLiquidityByStrategy and its transaction; an error is caught by the
\* inner catch, which prints it.
ProvAdd(r, ok) ==
    /\ run[r].pc = "created"
    /\ run' = [run EXCEPT ![r] =
                 IF ok THEN [@ EXCEPT !.pc = "added", !.added = TRUE]
                       ELSE [@ EXCEPT !.pc = "exited",
                                      !.exit = ExitCode(TRUE)]]
    /\ UNCHANGED <<docs, onChain, env, harvest>>
    /\ UNCHANGED <<supVars, watchVars, sweepVars, tailVars, lateVars,
                   clockVars, guardVars>>

\* The document is read (an empty object when it is missing or unparsable),
\* json.positionAddress is set to the new position and the file is written;
\* an error of the write is caught and printed.  Then main() returns.
ProvPersist(r, ok) ==
    /\ run[r].pc = "added"
    /\ IF ok
         THEN /\ docs' = [docs EXCEPT ![run[r].pool] =
                            [at |-> "store", pos |-> run[r].pos]]
              /\ run' = [run EXCEPT ![r].pc = "exited", ![r].wrote = TRUE,
                                    ![r].exit = ExitCode(FALSE)]
         ELSE /\ run' = [run EXCEPT ![r].pc = "exited",
                                    ![r].exit = ExitCode(TRUE)]
              /\ UNCHANGED docs
    /\ UNCHANGED <<onChain, env, harvest>>
    /\ UNCHANGED <<supVars, watchVars, sweepVars, tailVars, lateVars,
                   clockVars, guardVars>>

\* processNewJSONFile after cmd.CombinedOutput().
ProvLogged(r) ==
    /\ run[r].pc = "exited"
    /\ run' = [run EXCEPT ![r].pc = "logged", ![r].log = Result(run[r].exit)]
    /\ UNCHANGED <<docs, onChain, env, harvest>>
    /\ UNCHANGED <<supVars, watchVars, sweepVars, tailVars, lateVars,
                   clockVars, guardVars>>

\* claimAllRewardsByPosition: new PublicKey(process.env.POOL_ADDRESS!) and
\* new PublicKey(process.env.POSITION_ADDRESS!); process.argv is not read.
HarvestTarget(arg, e, d) == [pool |-> e.pool, position |-> e.position]

\* runClaimRewards(poolAddress) for a document of the State Store that has a
\* positionAddress: claimAllRewards.ts --pool=<poolAddress>.
HarvestRun(p) ==
    /\ docs[p].at = "store"
    /\ docs[p].pos # 0
    /\ LET t == HarvestTarget(p, env, docs)
       IN  harvest' = [arg |-> p, pool |-> t.pool, position |-> t.position]
    /\ UNCHANGED <<docs, onChain, run, env>>
    /\ UNCHANGED <<supVars, watchVars, sweepVars, tailVars, lateVars,
                   clockVars, guardVars>>

\* The documents and the .env file before any action has run.
ActionsAt(d, e) ==
    /\ docs = d
    /\ onChain = 0
    /\ run = [r \in Runs |-> NoRun]
    /\ env = e
    /\ harvest = [arg |-> "none", pool |-> "none", position |-> 0]

----------------------------------------------------------------------------
(* The price check, fetchPrice.ts main() with startPriceMonitoring and     *)
(* checkPriceMonitoring, as run once per pool and pass by                  *)
(* fetchPriceForToken; and the removal action, removeLiquidity.ts.         *)

\* The reference price c of the pool documents.
RefPrice == 100

\* The prices a check can observe.
Prices == {30, 45, 48, 100}

\* Last minute of the clock that is explored.
MaxMinutes == 11

\* Largest number of transactions dlmmPool.removeLiquidity returns.
MaxTx == 2

\* currentPrice < c * 0.4 (initialThreshold)
BelowInitial(price, c) == price * 10 < c * 4

\* currentPrice >= c * 0.4 * 1.2 (targetThreshold)
AtTarget(price, c) == price * 100 >= c * 48

\* elapsedMinutes >= 10
TimedOut(t, startTime) == t - startTime >= 10

NoMonitor == [p \in Pools |-> -1]

\* const priceMonitorStates = new Map(): the map is created empty when the
\* module is loaded, in every process.
MapAtLoad == NoMonitor

NoRemoval == [pool |-> "none", pc |-> "idle", left |-> 0, allTx |-> FALSE,
              swapOk |-> FALSE]

\* One minute passes while no price check runs.
MinutePasses ==
    /\ minute < MaxMinutes
    /\ fetch.pool = "none"
    /\ minute' = minute + 1
    /\ UNCHANGED <<fetch, entered, triggered, lastPrice, rem>>
    /\ UNCHANGED <<supVars, watchVars, sweepVars, tailVars, lateVars,
                   clockVars, actionVars>>

\* fetchPriceForToken: exec.Command("npx", "ts-node", "fetchPrice.ts",
\* "--pool=...", "--token=..."), a new process for every pool of every pass.
FetchStart(p) ==
    /\ fetch.pool = "none"
    /\ rem.pc = "idle"
    /\ fetch' = [pool |-> p, mon |-> MapAtLoad]
    /\ UNCHANGED <<minute, entered, triggered, lastPrice, rem>>
    /\ UNCHANGED <<supVars, watchVars, sweepVars, tailVars, lateVars,
                   clockVars, actionVars>>

\* main() of fetchPrice.ts with the price it fetched: without pool data (no
\* document, no c or no positionAddress) nothing is compared; a pool that
\* is monitored is checked by checkPriceMonitoring, which runs the removal
\* action at the target or after ten minutes; a pool that is not monitored
\* and is below the initial threshold begins to be monitored (the map entry
\* is set).  Then the process ends, and its map with it.
FetchCheck(price) ==
    /\ fetch.pool # "none"
    /\ LET p == fetch.pool
           hasData == docs[p].at = "store" /\ docs[p].pos # 0
           isMonitoring == fetch.mon[p] >= 0
           removes == /\ hasData
                      /\ isMonitoring
                      /\ \/ AtTarget(price, RefPrice)
                         \/ TimedOut(minute, fetch.mon[p])
           starts == /\ hasData
                     /\ ~isMonitoring
                     /\ BelowInitial(price, RefPrice)
           \* priceMonitorStates.delete / .set
           mon == IF removes THEN [fetch.mon EXCEPT ![p] = -1]
                  ELSE IF starts THEN [fetch.mon EXCEPT ![p] = minute]
                  ELSE fetch.mon
       IN  /\ triggered' = removes
           /\ lastPrice' = price
           \* the process ends: mon, its map, is not kept anywhere
           /\ fetch' = [pool |-> "none", mon |-> NoMonitor]
           /\ entered' = IF removes THEN [entered EXCEPT ![p] = -1]
                         ELSE IF starts /\ entered[p] = -1
                           THEN [entered EXCEPT ![p] = minute]
                           ELSE entered
           /\ rem' = IF removes
                       THEN [NoRemoval EXCEPT !.pool = p, !.pc = "setup"]
                       ELSE rem
    /\ UNCHANGED minute
    /\ UNCHANGED <<supVars, watchVars, sweepVars, tailVars, lateVars,
                   clockVars, actionVars>>

\* removeLiquidity.ts --pool=p --position=... is started by one of its other
\* callers.
RemStart(p) ==
    /\ rem.pc = "idle"
    /\ fetch.pool = "none"
    /\ rem' = [NoRemoval EXCEPT !.pool = p, !.pc = "setup"]
    /\ UNCHANGED <<minute, fetch, entered, triggered, lastPrice>>
    /\ UNCHANGED <<supVars, watchVars, sweepVars, tailVars, lateVars,
                   clockVars, actionVars>>

\* The addresses are validated, the pool and the key are loaded and
\* dlmmPool.removeLiquidity returns n transactions; a throw goes to the catch
\* at the end of removeLiquidity().
RemSetup(ok, n) ==
    /\ rem.pc = "setup"
    /\ rem' = IF ok THEN [rem EXCEPT !.pc = "txs", !.left = n]
                    ELSE [rem EXCEPT !.pc = "done"]
    /\ UNCHANGED <<minute, fetch, entered, triggered, lastPrice>>
    /\ UNCHANGED <<supVars, watchVars, sweepVars, tailVars, lateVars,
                   clockVars, actionVars>>

\* The next transaction is signed, sent and looked up; a throw ends the run.
RemTx(ok) ==
    /\ rem.pc = "txs"
    /\ rem.left > 0
    /\ rem' = IF ok THEN [rem EXCEPT !.left = @ - 1]
                    ELSE [rem EXCEPT !.pc = "done"]
    /\ UNCHANGED <<minute, fetch, entered, triggered, lastPrice>>
    /\ UNCHANGED <<supVars, watchVars, sweepVars, tailVars, lateVars,
                   clockVars, actionVars>>

\* The loop is over; readTokenContractAddressFromPoolJson: without a ca the
\* swap is skipped.
RemTxsDone(caFound) ==
    /\ rem.pc = "txs"
    /\ rem.left = 0
    /\ caFound => docs[rem.pool].at = "store"
    /\ rem' = [rem EXCEPT !.allTx = TRUE,
                          !.pc = IF caFound THEN "swap" ELSE "done"]
    /\ UNCHANGED <<minute, fetch, entered, triggered, lastPrice>>
    /\ UNCHANGED <<supVars, watchVars, sweepVars, tailVars, lateVars,
                   clockVars, actionVars>>

\* Faulty variant: the document is moved whatever the swap did.
MovesAlways(jupSwapSuccess) == TRUE

\* if (jupSwapSuccess) { await moveJsonToHistory(finalPoolAddress) }
MovesWhen(jupSwapSuccess) == jupSwapSuccess

\* executeJupSwap returns what checkJupSwapSuccess judged; then
\* moveJsonToHistory: nothing when the source file does not exist, otherwise
\* fs.renameSync into data/history, whose error is caught and printed.
RemSwap(jupSwapSuccess, renames) ==
    /\ rem.pc = "swap"
    /\ rem' = [rem EXCEPT !.swapOk = jupSwapSuccess, !.pc = "done"]
    /\ docs' = IF /\ MovesWhen(jupSwapSuccess)
                  /\ docs[rem.pool].at = "store"
                  /\ renames
                 THEN [docs EXCEPT ![rem.pool].at = "history"]
                 ELSE docs
    /\ UNCHANGED <<minute, fetch, entered, triggered, lastPrice>>
    /\ UNCHANGED <<onChain, run, env, harvest>>
    /\ UNCHANGED <<supVars, watchVars, sweepVars, tailVars, lateVars,
                   clockVars>>

\* The removal process ends.
RemExit ==
    /\ rem.pc = "done"
    /\ rem' = NoRemoval
    /\ UNCHANGED <<minute, fetch, entered, triggered, lastPrice>>
    /\ UNCHANGED <<supVars, watchVars, sweepVars, tailVars, lateVars,
                   clockVars, actionVars>>

\* No price check has run and no removal runs.
GuardIdle ==
    /\ minute = 0
    /\ fetch = [pool |-> "none", mon |-> NoMonitor]
    /\ entered = NoMonitor
    /\ triggered = FALSE
    /\ lastPrice = 0
    /\ rem = NoRemoval

----------------------------------------------------------------------------
(* processNewJSONFile: from the document file to the command line of the   *)
(* provisioning action, main.go:386-456.                                   *)

\* The file at the path: one that os.ReadFile cannot read, one that is not
\* JSON, or a JSON object with its poolAddress value, the type of its "data"
\* value and the values of ca and last_updated_first under data.
JobFile(kind, pool, dataKind, ca, luf) ==
    [kind |-> kind, pool |-> pool, dataKind |-> dataKind, ca |-> ca,
     luf |-> luf]

NoFile == JobFile("unreadable", Absent, "absent", Absent, Absent)

JobFiles ==
    {NoFile, JobFile("badJson", Absent, "absent", Absent, Absent)}
    \cup {JobFile("object", pool, "object", ca, luf) :
              pool \in {Absent, JStr(""), JStr("P1"), JOther},
              ca \in {Absent, JStr(""), JStr("T1"), JOther},
              luf \in {Absent, JStr(""), JStr("L1"), JOther}}
    \cup {JobFile("object", pool, dataKind, Absent, Absent) :
              pool \in {Absent, JStr(""), JStr("P1"), JOther},
              dataKind \in {"absent", "other"}}

\* json.Unmarshal(jsonData, &profitData) with PoolAddress string and
\* Data map[string]interface{}: an error when the text is not a JSON object,
\* when poolAddress is not a string or when data is not an object; a missing
\* poolAddress leaves "", a missing data leaves a nil map.
Unmarshal(file) ==
    [err |-> \/ file.kind # "object"
             \/ file.pool.t = "number"
             \/ file.dataKind = "other",
     PoolAddress |-> IF file.pool.t = "string" THEN file.pool.s ELSE "",
     Data |-> IF file.dataKind = "object"
                THEN [ca |-> file.ca, last_updated_first |-> file.luf]
                ELSE [ca |-> Absent, last_updated_first |-> Absent]]

\* if v, exists := profitData.Data[key]; exists { if s, ok := v.(string); ok
\* { ... = s } }: the string under the key, "" otherwise.
DataString(data, key) == IF data[key].t = "string" THEN data[key].s ELSE ""

\* Faulty variant: the poolAddress check lets every document through.
MissingPoolNever(poolAddress) == FALSE

\* if poolAddress == "" { ...; return }
MissingPool(poolAddress) == poolAddress = ""

Flag(name, value) == [flag |-> name, value |-> value]

\* Faulty variant: the three parameters are always passed.
ArgsAll(poolAddress, ca, lastUpdatedFirst) ==
    <<Flag("--pool", poolAddress), Flag("--token", ca),
      Flag("--last_updated_first", lastUpdatedFirst)>>

\* args := {"ts-node", "addLiquidity.ts", "--pool=..."}, then --token and
\* --last_updated_first appended when their value is not "".
Args(poolAddress, ca, lastUpdatedFirst) ==
    <<Flag("--pool", poolAddress)>>
        \o (IF ca # "" THEN <<Flag("--token", ca)>> ELSE << >>)
        \o (IF lastUpdatedFirst # ""
              THEN <<Flag("--last_updated_first", lastUpdatedFirst)>>
              ELSE << >>)

NoJob == [file |-> NoFile, pc |-> "idle", args |-> << >>, exit |-> "none"]

\* go func(path string) { ...; processNewJSONFile(path) }(event.Name)
JobBegin(file) ==
    /\ ProcessAlive
    /\ job.pc \in {"idle", "done"}
    /\ file \in JobFiles
    /\ job' = [file |-> file, pc |-> "read", args |-> << >>, exit |-> "none"]
    /\ UNCHANGED <<supVars, sweepVars, tailVars, watchVars, earlyVars>>
    /\ UNCHANGED <<swapLateVars, logVars, boot>>

\* processNewJSONFile up to cmd.CombinedOutput(): os.ReadFile, json.Unmarshal
\* and the poolAddress check each return early; otherwise the arguments are
\* built and the command is run.
JobRead ==
    /\ ProcessAlive
    /\ job.pc = "read"
    /\ LET profitData == Unmarshal(job.file)
           poolAddress == profitData.PoolAddress
           ca == DataString(profitData.Data, "ca")
           lastUpdatedFirst == DataString(profitData.Data, "last_updated_first")
       IN  IF job.file.kind = "unreadable"
             THEN job' = [job EXCEPT !.pc = "done", !.exit = "readError"]
             ELSE IF profitData.err
               THEN job' = [job EXCEPT !.pc = "done", !.exit = "parseError"]
               ELSE IF MissingPool(poolAddress)
                 THEN job' = [job EXCEPT !.pc = "done", !.exit = "noPool"]
                 ELSE job' = [job EXCEPT
                                 !.pc = "exec",
                                 !.args = Args(poolAddress, ca, lastUpdatedFirst)]
    /\ UNCHANGED <<supVars, sweepVars, tailVars, watchVars, earlyVars>>
    /\ UNCHANGED <<swapLateVars, logVars, boot>>

\* cmd.CombinedOutput() returns with err or without; processNewJSONFile
\* returns.
JobExit(ok) ==
    /\ ProcessAlive
    /\ job.pc = "exec"
    /\ job' = [job EXCEPT !.pc = "done", !.exit = IF ok THEN "ok" ELSE "fail"]
    /\ UNCHANGED <<supVars, sweepVars, tailVars, watchVars, earlyVars>>
    /\ UNCHANGED <<swapLateVars, logVars, boot>>

----------------------------------------------------------------------------
(* The Log Sink: logOutput and closeLogging, main.go:57-82.                *)

\* The tasks that call logOutput: main, the signal goroutine, the three
\* schedulers and a dispatch worker.
LogTasks == {"main", "signal", "price", "claim", "swap", "worker"}

\* Faulty variant: Lock never blocks.
MutexFreeAlways(pcs) == TRUE

\* logMutex is unlocked: no task is between its Lock and its Unlock.
MutexFree(pcs) ==
    \A t \in DOMAIN pcs : pcs[t] \notin {"locked", "wrote", "closing"}

\* Faulty variant: the file is written without the nil test.
FileOpenAlways(closed) == TRUE

\* if logFile != nil: closeLogging sets logFile = nil when it has closed it.
FileOpen(closed) == ~closed

\* logOutput is called: the message is formatted and printed to the
\* terminal, then logMutex.Lock() is called.
LogCall(t) ==
    /\ ProcessAlive
    /\ logPc[t] = "out"
    /\ logPc' = [logPc EXCEPT ![t] = "wait"]
    /\ UNCHANGED lateWrite
    /\ UNCHANGED <<supVars, sweepVars, tailVars, watchVars, earlyVars>>
    /\ UNCHANGED <<swapLateVars, job, boot>>

\* logMutex.Lock() returns.
LogLock(t) ==
    /\ ProcessAlive
    /\ logPc[t] = "wait"
    /\ MutexFree(logPc)
    /\ logPc' = [logPc EXCEPT ![t] = "locked"]
    /\ UNCHANGED lateWrite
    /\ UNCHANGED <<supVars, sweepVars, tailVars, watchVars, earlyVars>>
    /\ UNCHANGED <<swapLateVars, job, boot>>

\* if logFile != nil { logFile.WriteString(logMessage); logFile.Sync() }
LogWrite(t) ==
    /\ ProcessAlive
    /\ logPc[t] = "locked"
    /\ logPc' = [logPc EXCEPT ![t] = "wrote"]
    /\ lateWrite' = (lateWrite \/ (FileOpen(logClosed) /\ logClosed))
    /\ UNCHANGED <<supVars, sweepVars, tailVars, watchVars, earlyVars>>
    /\ UNCHANGED <<swapLateVars, job, boot>>

\* logMutex.Unlock()
LogUnlock(t) ==
    /\ ProcessAlive
    /\ logPc[t] = "wrote"
    /\ logPc' = [logPc EXCEPT ![t] = "out"]
    /\ UNCHANGED lateWrite
    /\ UNCHANGED <<supVars, sweepVars, tailVars, watchVars, earlyVars>>
    /\ UNCHANGED <<swapLateVars, job, boot>>

\* main returns and the deferred closeLogging takes the mutex.
CloseLock ==
    /\ ProcessAlive
    /\ logPc["main"] = "out"
    /\ MutexFree(logPc)
    /\ logPc' = [logPc EXCEPT !["main"] = "closing"]
    /\ UNCHANGED lateWrite
    /\ UNCHANGED <<supVars, sweepVars, tailVars, watchVars, earlyVars>>
    /\ UNCHANGED <<swapLateVars, job, boot>>

\* closeLogging: logFile.Close(); logFile = nil; logMutex.Unlock().  The
\* other goroutines run on until the runtime ends the process.
CloseFile ==
    /\ ProcessAlive
    /\ logPc["main"] = "closing"
    /\ logClosed' = TRUE
    /\ logPc' = [logPc EXCEPT !["main"] = "gone"]
    /\ UNCHANGED lateWrite
    /\ UNCHANGED <<mainPc, eventName, processedFiles, sem, running,
                   dispatched, dupLoaded, cancelled, sigPc, sched>>
    /\ UNCHANGED <<sweepVars, tailVars, watchVars, earlyVars>>
    /\ UNCHANGED <<swapLateVars, job, boot>>

----------------------------------------------------------------------------
(* main's startup, main.go:91-184.                                         *)

\* Faulty variant: the schedulers are started before the ledger is read.
StartupOrderSchedulersFirst ==
    <<"logging", "signals", "mkdir", "price", "claim", "swap", "headers",
      "count", "watcher", "watchCsv", "watchDir">>

\* The steps of main before its event loop, in order: initLogging, the
\* signal goroutine, os.MkdirAll(dataDir), readCSVHeaders, getLineCount, the
\* three "go start...Ticker()", fsnotify.NewWatcher and the two
\* watcher.Add.
StartupOrder ==
    <<"logging", "signals", "mkdir", "headers", "count", "price", "claim",
      "swap", "watcher", "watchCsv", "watchDir">>

\* The steps that end in log.Fatalf when they return an error.
CanFail == {"logging", "mkdir", "headers", "count", "watcher", "watchCsv",
            "watchDir"}

\* The steps that start a goroutine or the watcher.
StartsTask == {"signals", "price", "claim", "swap", "watcher"}

\* Startup is over and main is in its loop.
Booted ==
    [at |-> Len(StartupOrder) + 1, failed |-> "none", started |-> StartsTask]

\* The next step of startup: it returns an error and log.Fatalf ends the
\* process with os.Exit(1), or it succeeds; after the last step main enters
\* its event loop.
BootStep(ok) ==
    /\ mainPc = "startup"
    /\ boot.at <= Len(StartupOrder)
    /\ LET step == StartupOrder[boot.at]
       IN  /\ ~ok => step \in CanFail
           /\ IF ok
                THEN /\ boot' = [boot EXCEPT
                                    !.at = @ + 1,
                                    !.started = IF step \in StartsTask
                                                  THEN @ \cup {step} ELSE @]
                     /\ mainPc' = IF boot.at = Len(StartupOrder)
                                    THEN "select" ELSE mainPc
                     /\ sched' = IF step \in Schedulers
                                   THEN [sched EXCEPT ![step] = "wait"]
                                   ELSE sched
                ELSE /\ boot' = [boot EXCEPT !.failed = step]
                     /\ mainPc' = "killed"
                     /\ UNCHANGED sched
    /\ UNCHANGED <<eventName, processedFiles, sem, running, dispatched,
                   dupLoaded, cancelled, sigPc, logClosed>>
    /\ UNCHANGED <<sweepVars, tailVars, watchVars, earlyVars>>
    /\ UNCHANGED <<swapLateVars, job, logVars>>

\* The variables added last, where a specification does not follow them.
LateIdle ==
    /\ job = NoJob
    /\ logPc = [t \in LogTasks |-> "out"]
    /\ lateWrite = FALSE
    /\ boot = Booted
    /\ listFailed = FALSE
    /\ swapLog = NoEntry
    /\ banChecked = {}

----------------------------------------------------------------------------

\* Startup: readCSVHeaders and getLineCount on a ledger that holds its header
\* line.
InitLedger(headers) ==
    /\ csvHeaders = headers
    /\ ledger = <<RowLine(headers)>>
    /\ currentLineCount = 1
    /\ store = << >>
    /\ cycle = [from |-> 1, upto |-> 1, opened |-> FALSE, scanned |-> {},
                wrote |-> {}, docs |-> << >>, again |-> FALSE, failing |-> {}]
    /\ scanned = {}

\* The parts that a specification does not follow stay as they start.
InitAux ==
    /\ ClockAt("price", 0)
    /\ ActionsAt([p \in Pools |-> [at |-> "store", pos |-> 0]],
                 [pool |-> "P1", position |-> 0])
    /\ GuardIdle
    /\ LateIdle

InitSupervisor ==
    /\ mainPc = "select"
    /\ eventName = 0
    /\ processedFiles = {}
    /\ sem = 0
    /\ running = 0
    /\ dispatched = [p \in Paths |-> 0]
    /\ dupLoaded = FALSE
    /\ cancelled = FALSE
    /\ sigPc = "first"
    /\ sched = [s \in Schedulers |-> "wait"]
    /\ logClosed = FALSE
    /\ act = [a \in ExtActions |-> "idle"]
    /\ outcome = [a \in ExtActions |-> "none"]
    /\ passLen = [s \in Schedulers |-> 0]
    /\ idx = [s \in Schedulers |-> 0]
    /\ swapInvoked = 0
    /\ inFlightAtCancel = {}
    /\ watch = 0
    /\ watchDoc = "pool"
    /\ watchPc = "none"
    /\ watchExit = "none"
    /\ claimDoc = Unreadable
    /\ banList = {}
    /\ listingOut = << >>
    /\ tokenAddresses = << >>
    /\ passed = << >>

InitCore == InitSupervisor /\ InitAux

\* The process has just been started: nothing of main has run.
InitBoot ==
    /\ mainPc = "startup"
    /\ sched = [s \in Schedulers |-> "none"]
    /\ boot = [at |-> 1, failed |-> "none", started |-> {}]
    /\ eventName = 0
    /\ processedFiles = {}
    /\ sem = 0
    /\ running = 0
    /\ dispatched = [p \in Paths |-> 0]
    /\ dupLoaded = FALSE
    /\ cancelled = FALSE
    /\ sigPc = "first"
    /\ logClosed = FALSE
    /\ act = [a \in ExtActions |-> "idle"]
    /\ outcome = [a \in ExtActions |-> "none"]
    /\ passLen = [s \in Schedulers |-> 0]
    /\ idx = [s \in Schedulers |-> 0]
    /\ swapInvoked = 0
    /\ inFlightAtCancel = {}
    /\ watch = 0
    /\ watchDoc = "pool"
    /\ watchPc = "none"
    /\ watchExit = "none"
    /\ claimDoc = Unreadable
    /\ banList = {}
    /\ listingOut = << >>
    /\ tokenAddresses = << >>
    /\ passed = << >>
    /\ ClockAt("price", 0)
    /\ ActionsAt([p \in Pools |-> [at |-> "store", pos |-> 0]],
                 [pool |-> "P1", position |-> 0])
    /\ GuardIdle
    /\ job = NoJob
    /\ logPc = [t \in LogTasks |-> "out"]
    /\ lateWrite = FALSE
    /\ listFailed = FALSE
    /\ swapLog = NoEntry
    /\ banChecked = {}
    /\ banFile = << >>
    /\ banStat = "missing"
    /\ InitLedger(<<"poolAddress", "ca">>)

\* No blacklist has been written.
NoBanFile == banFile = << >> /\ banStat = "missing"

Init == InitCore /\ InitLedger(<<"poolAddress", "ca">>) /\ NoBanFile

InitTail ==
    /\ InitCore
    /\ \E headers \in HeaderChoices : InitLedger(headers)
    /\ NoBanFile

InitBan ==
    /\ InitCore
    /\ InitLedger(<<"poolAddress", "ca">>)
    /\ \/ banFile \in BanChoices /\ banStat = "exists"
       \/ banFile = << >> /\ banStat \in {"missing", "unreadable"}

\* A scheduler goroutine begins at some second of a minute.
InitClock ==
    /\ InitSupervisor
    /\ InitLedger(<<"poolAddress", "ca">>)
    /\ NoBanFile
    /\ \E s \in Schedulers : \E t \in StartSeconds : ClockAt(s, t)
    /\ ActionsAt([p \in Pools |-> [at |-> "store", pos |-> 0]],
                 [pool |-> "P1", position |-> 0])
    /\ GuardIdle
    /\ LateIdle

\* The pool documents as the tailer wrote them, and a .env file that names a
\* pool and possibly a position.
InitActions ==
    /\ InitSupervisor
    /\ InitLedger(<<"poolAddress", "ca">>)
    /\ NoBanFile
    /\ ClockAt("price", 0)
    /\ \E e \in [pool : Pools, position : 0..MaxPositions] :
          ActionsAt([p \in Pools |-> [at |-> "store", pos |-> 0]], e)
    /\ GuardIdle
    /\ LateIdle

\* Pool documents with a reference price; each may hold a position.
InitGuard ==
    /\ InitSupervisor
    /\ InitLedger(<<"poolAddress", "ca">>)
    /\ NoBanFile
    /\ ClockAt("price", 0)
    /\ \E d \in [Pools -> [at : {"store"}, pos : {0, 1}]] :
          ActionsAt(d, [pool |-> "P1", position |-> 0])
    /\ GuardIdle
    /\ LateIdle

Next ==
    \/ FirstSignal
    \/ SecondSignal
    \/ \E p \in Paths : RecvCreate(p, FALSE, "pool")
    \/ Acquire
    \/ \E exit \in ExitPaths : WorkerDone(exit)
    \/ \E panics \in BOOLEAN : RecvCsvWrite(panics)
    \/ ObserveDone
    \/ MainReturn
    \/ \E s \in Schedulers : SchedExit(s)
    \/ \E s \in Schedulers : PassStart(s)
    \/ \E s \in Schedulers : PassEnd(s)

Spec == Init /\ [][Next]_vars

NextSweep ==
    \/ FirstSignal
    \/ \E s \in Schedulers : SchedExit(s)
    \/ ProvisionStart
    \/ \E how \in {"ok", "fail", "timeout", "canceled"} : ProvisionFinish(how)
    \/ \E n \in 1..MaxItems : PriceBegin(n)
    \/ \E how \in {"ok", "fail", "timeout", "canceled"} : PriceFinish(how)
    \/ PriceNext
    \/ \E n \in 1..MaxItems : ClaimBegin(n)
    \/ \E hasPosition \in BOOLEAN :
            ClaimItem(PlainEntry(hasPosition), PlainEntry(hasPosition).doc)
    \/ \E how \in {"ok", "fail", "timeout", "canceled"} : ClaimFinish(how)
    \/ ClaimEnd
    \/ SwapBegin
    \/ SwapList
    \/ \E how \in {"ok", "fail", "timeout", "canceled"}, n \in 0..MaxItems :
            ListingFinish(how, PlainOutput(n))
    \/ SwapLoop
    \/ SwapToken
    \/ SwapStart
    \/ \E how \in {"ok", "fail", "timeout", "canceled"} : SwapFinish(how)
    \/ \E viaDone \in BOOLEAN : SwapDelay(viaDone)

SpecSweep == Init /\ [][NextSweep]_vars

\* The watcher's dispatch with one dispatch followed step by step, each
\* path reported once; after the cancellation main waits in
\* shutdownWg.Wait(), and a second signal ends the process.
NextDispatch ==
    \/ FirstSignal
    \/ SecondSignal
    \/ \E doc \in DocKinds : RecvCreate(NextFresh, TRUE, doc)
    \/ RecvCreate(NextFresh, FALSE, "pool")
    \/ Acquire
    \/ \E exit \in ExitPaths : WorkerDone(exit)
    \/ WatchedRead
    \/ \E exit \in {"fail", "ok"} : WatchedFinish(exit)
    \/ ObserveDone

SpecDispatch == Init /\ [][NextDispatch]_vars

\* The Go scheduler runs a goroutine that can run, main's send on sem goes
\* through once the channel has room, and every provisioning action
\* terminates.
LiveDispatch ==
    /\ SpecDispatch
    /\ WF_vars(Acquire)
    /\ WF_vars(\E exit \in ExitPaths : WorkerDone(exit))
    /\ WF_vars(WatchedRead)
    /\ WF_vars(\E exit \in {"fail", "ok"} : WatchedFinish(exit))

NextHarvest ==
    \/ FirstSignal
    \/ \E s \in Schedulers : SchedExit(s)
    \/ \E n \in 1..MaxItems : ClaimBegin(n)
    \/ \E entry \in DirEntries, again \in DocChoices : ClaimItem(entry, again)
    \/ \E how \in {"ok", "fail", "timeout", "canceled"} : ClaimFinish(how)
    \/ ClaimEnd

SpecHarvest == Init /\ [][NextHarvest]_vars

NextBan ==
    \/ FirstSignal
    \/ SwapBegin
    \/ SwapList
    \/ \E how \in {"ok", "fail", "timeout", "canceled"}, out \in Outputs :
            ListingFinish(how, out)
    \/ SwapLoop
    \/ SwapToken
    \/ SwapStart
    \/ \E how \in {"ok", "fail", "timeout", "canceled"} : SwapFinish(how)
    \/ \E viaDone \in BOOLEAN : SwapDelay(viaDone)

SpecBan == InitBan /\ [][NextBan]_vars

NextTail ==
    \/ \E line \in Lines : AppendLine(line)
    \/ \E counts, opens \in BOOLEAN : TailCycle(counts, opens)
    \/ \E name \in PoolDocNames : ProvisionWrite(name)

SpecTail == InitTail /\ [][NextTail]_vars

\* Fairness of the supervisor.  Go's select chooses uniformly among its ready
\* cases, so a case that is ready again and again is eventually taken (strong
\* fairness of the Done cases); a goroutine that can run does run, and every
\* external action terminates, so dispatch workers and passes finish.
\* One scheduler goroutine against the wall clock.
NextClock ==
    \/ Advance
    \/ InitialFire
    \/ ItemStart
    \/ ItemEnd
    \/ PassReturn
    \/ TickerCase

SpecClock == InitClock /\ [][NextClock]_vars

\* Runs of the provisioning action and of the harvest action.
NextActions ==
    \/ \E r \in Runs : \E p \in Pools : \E launches \in BOOLEAN :
          ProvStart(r, p, launches)
    \/ \E r \in Runs : \E ok \in BOOLEAN : ProvCreate(r, ok)
    \/ \E r \in Runs : \E ok \in BOOLEAN : ProvAdd(r, ok)
    \/ \E r \in Runs : \E ok \in BOOLEAN : ProvPersist(r, ok)
    \/ \E r \in Runs : ProvLogged(r)
    \/ \E p \in Pools : HarvestRun(p)

SpecActions == InitActions /\ [][NextActions]_vars

\* The price checks of the Price Refresh passes and the removal action.
NextGuard ==
    \/ MinutePasses
    \/ \E p \in Pools : FetchStart(p)
    \/ \E price \in Prices : FetchCheck(price)
    \/ \E p \in Pools : RemStart(p)
    \/ \E ok \in BOOLEAN : \E n \in 0..MaxTx : RemSetup(ok, n)
    \/ \E ok \in BOOLEAN : RemTx(ok)
    \/ \E caFound \in BOOLEAN : RemTxsDone(caFound)
    \/ \E jupSwapSuccess \in BOOLEAN : \E renames \in BOOLEAN :
          RemSwap(jupSwapSuccess, renames)
    \/ RemExit

SpecGuard == InitGuard /\ [][NextGuard]_vars

\* The lines appended where reprocessing is followed: rows of two pools, a
\* second row of one of them, a row without poolAddress and an empty line.
ReprocessLines ==
    {RowLine(f) : f \in {<<"P1", "T1">>, <<"P2", "T1">>, <<"P2", "T1", "X">>,
                         <<"", "T1">>}} \cup {BlankLine}

\* The tailer, with rows that are processed a second time.
NextReprocess ==
    \/ \E line \in ReprocessLines : AppendLine(line)
    \/ \E counts \in BOOLEAN : \E opens \in BOOLEAN : TailCycle(counts, opens)
    \/ \E name \in PoolDocNames : ProvisionWrite(name)
    \/ Reprocess

SpecReprocess == Init /\ [][NextReprocess]_vars

\* The lines appended where skipping is followed: rows of two pools, a row
\* with an empty poolAddress and a line the csv reader rejects.
SkipLines ==
    {RowLine(f) : f \in {<<"P1", "T1">>, <<"P2", "T1">>, <<"", "T1">>}}
        \cup {BadLine}

\* The tailer, with documents that cannot be written.
NextSkip ==
    \/ \E line \in SkipLines : AppendLine(line)
    \/ \E counts \in BOOLEAN : \E opens \in BOOLEAN :
          \E failing \in {{}, {DocName("P1", 0)}} :
             TailCycleWrites(counts, opens, failing)

SpecSkip == Init /\ [][NextSkip]_vars

\* Calls of processNewJSONFile, one after the other, on every kind of file.
NextJob ==
    \/ \E file \in JobFiles : JobBegin(file)
    \/ JobRead
    \/ \E ok \in BOOLEAN : JobExit(ok)

SpecJob == Init /\ [][NextJob]_vars

\* The tasks of the process in logOutput, and main in closeLogging.
NextLog ==
    \/ \E t \in LogTasks : LogCall(t)
    \/ \E t \in LogTasks : LogLock(t)
    \/ \E t \in LogTasks : LogWrite(t)
    \/ \E t \in LogTasks : LogUnlock(t)
    \/ CloseLock
    \/ CloseFile

SpecLog == Init /\ [][NextLog]_vars

\* main from its first statement: startup, then the schedulers' passes, the
\* tail cycles and the shutdown.
NextBoot ==
    \/ \E ok \in BOOLEAN : BootStep(ok)
    \/ FirstSignal
    \/ SecondSignal
    \/ ObserveDone
    \/ MainReturn
    \/ \E s \in Schedulers : SchedExit(s)
    \/ \E s \in Schedulers : PassStart(s)
    \/ \E s \in Schedulers : PassEnd(s)
    \/ \E panics \in BOOLEAN : RecvCsvWrite(panics)

SpecBoot == InitBoot /\ [][NextBoot]_vars

LiveSpec ==
    /\ Spec
    /\ SF_vars(ObserveDone)
    /\ \A s \in Schedulers : SF_vars(SchedExit(s))
    /\ \A s \in Schedulers : WF_vars(PassEnd(s))
    /\ WF_vars(Acquire)
    /\ WF_vars(\E exit \in ExitPaths : WorkerDone(exit))
    /\ WF_vars(MainReturn)

----------------------------------------------------------------------------
(* Claims about the supervisor.                                            *)

\* C1: for every document path the provisioning dispatch is started at most
\* once per process run, however many Create events name the path.
C1_DispatchAtMostOnce == \A p \in Paths : dispatched[p] <= 1

\* C1 witness: a repeated Create event was delivered for a stored path, and
\* every stored path has exactly one dispatch.
C1_Witness ==
    /\ dupLoaded
    /\ mainPc = "select"
    /\ Cardinality(processedFiles) >= 2
    /\ \A p \in processedFiles : dispatched[p] = 1

\* C2: the number of provisioning dispatches running at the same time never
\* exceeds the permit-pool size.
C2_ConcurrencyCeiling == running <= maxConcurrent

\* C2 witness: a burst has filled the pool and main is blocked on the send
\* for one more document.
C2_Witness == running = maxConcurrent /\ mainPc = "acquire"

\* C3: main closes the Log Sink and returns only after the three schedulers
\* and every in-flight dispatch worker have exited.
C3_ExitAfterAllExited ==
    (mainPc = "returned" \/ logClosed) => (WaitGroupDone /\ running = 0)

\* C7: after a termination signal the process eventually exits.
C7_SignalLeadsToExit == cancelled ~> ProcessExited

\* C36: once a first termination signal has started the graceful shutdown
\* and while the process is alive, a second signal can be handled at once,
\* whatever the schedulers and the dispatch workers are doing, and after it
\* has been handled the process has exited through os.Exit.
C36_SecondSignalExitsAtOnce ==
    /\ (ProcessAlive /\ sigPc = "second") => ENABLED SecondSignal
    /\ sigPc = "exit" => mainPc = "killed"

\* C36 witness: the second signal ended the process while a scheduler was
\* inside a pass and dispatch workers were running.
C36_Witness ==
    /\ mainPc = "killed"
    /\ sigPc = "exit"
    /\ running > 0
    /\ \E s \in Schedulers : sched[s] = "pass"

\* C7 witness: graceful shutdown completed, main returned through the Done
\* case after waiting for the schedulers, without a second signal.
C7_Witness == mainPc = "returned" /\ sigPc = "second" /\ Cardinality(processedFiles) >= 1

----------------------------------------------------------------------------
(* Claims about cancellation and the external actions (SpecSweep).         *)

C5_NoNewActionAfterCancel ==
    [][cancelled => \A a \in ExtActions :
                        act'[a] = "running" => act[a] = "running"]_vars

\* C6: once the cancellation has fired during a Swap Sweep pass, no further
\* item of that pass is invoked.
C6_SweepStopsAtCancel ==
    [][cancelled => swapInvoked' <= swapInvoked]_vars

\* C6 witness: the cancellation fired while item k of n was running, k < n;
\* the item has ended and the later items are still to come.
C6_Witness ==
    /\ cancelled
    /\ sched["swap"] = "delay"
    /\ "swap" \in inFlightAtCancel
    /\ swapInvoked = idx["swap"]
    /\ swapInvoked >= 1
    /\ idx["swap"] < passLen["swap"]

----------------------------------------------------------------------------
(* Claims about the ledger tailer (SpecTail).                              *)

\* The lines the last tail cycle found appended.
Batch == (cycle.from + 1)..cycle.upto

\* The poolAddress field of a line: the field under the poolAddress column,
\* "" when the line has no such field.
PoolOf(l) ==
    IF \E i \in 1..Len(l.fields) : i <= Len(csvHeaders) /\ csvHeaders[i] = "poolAddress"
      THEN l.fields[CHOOSE i \in 1..Len(l.fields) :
                        i <= Len(csvHeaders) /\ csvHeaders[i] = "poolAddress"]
      ELSE ""

WellFormed(l) == l.kind = "row" /\ Len(l.fields) = Len(csvHeaders)

\* C8: when the tail cycle has read the ledger and the N appended rows are
\* well-formed and carry pairwise distinct non-empty poolAddress values, the
\* tail cycle writes exactly N documents, one named after each row's
\* poolAddress and holding that poolAddress and the positional
\* header-to-value map of the row.
C8_OneDocumentPerRow ==
    ( /\ cycle.upto > cycle.from
      /\ cycle.opened
      /\ \A i \in Batch : WellFormed(ledger[i]) /\ PoolOf(ledger[i]) # ""
      /\ \A i, j \in Batch : i # j => PoolOf(ledger[i]) # PoolOf(ledger[j]) )
    =>
    ( /\ cycle.wrote = {[pool |-> PoolOf(ledger[i]), line |-> 0] : i \in Batch}
      /\ Cardinality(cycle.wrote) = cycle.upto - cycle.from
      /\ \A i \in Batch :
            LET name == [pool |-> PoolOf(ledger[i]), line |-> 0]
            IN  /\ name \in DOMAIN store
                /\ store[name].poolAddress = PoolOf(ledger[i])
                /\ \A k \in 1..Len(csvHeaders) :
                      store[name].data[csvHeaders[k]] = ledger[i].fields[k] )

\* C9: an appended row whose poolAddress is absent or empty, in a tail cycle
\* that has read the ledger, gives one document under a synthesized name, and
\* the tail cycle goes on: it ends
\* with the high-water mark advanced and the process running.
C9_MissingPoolSynthesized ==
    \A i \in Batch :
        (cycle.opened /\ ledger[i].kind = "row" /\ PoolOf(ledger[i]) = "")
        => /\ mainPc # "crashed"
           /\ currentLineCount >= cycle.upto
           /\ \E name \in cycle.wrote : name.pool = ""

\* C10: no steady-state error ends the process: while no termination signal
\* has arrived the supervisor is running.
C10_ErrorsNeverFatal == sigPc = "first" => ProcessAlive

\* C11: every line appended to the ledger while the supervisor runs is read
\* by the processing loop of some tail cycle: when a cycle that opened the
\* ledger has moved the high-water mark past a non-empty line, some cycle has
\* read that line.
C11_AppendedLineScanned ==
    (ProcessAlive /\ cycle.opened)
    => \A i \in Batch : ledger[i].kind # "blank" => i \in scanned

\* C17: a tail cycle never removes a field that another writer added to a
\* document: a document that holds a positionAddress still holds it after
\* every step.
C17_PositionSurvivesTail ==
    [][\A name \in DOMAIN store :
           HasPosition(store[name])
           => (name \in DOMAIN store' /\ HasPosition(store'[name]))]_vars

\* C18: the high-water mark advances only past lines that the tail cycle
\* read: after a cycle that could not open the ledger the mark has the value
\* it had before, and after a cycle that opened it every non-empty line the
\* mark moved past was read by that cycle.
C18_MarkAdvancesPastScanned ==
    /\ ~cycle.opened => currentLineCount = cycle.from
    /\ (ProcessAlive /\ cycle.opened)
       => \A i \in (cycle.from + 1)..currentLineCount :
              ledger[i].kind # "blank" => i \in cycle.scanned

\* The record on line i of the ledger was not saved by the last tail cycle
\* for one of the reasons the loop tests: csv.Reader.Read returned an error,
\* parseCSVRecord found no poolAddress, or os.WriteFile failed.
FailsInCycle(i) ==
    \/ ledger[i].kind = "bad"
    \/ /\ ledger[i].kind = "row"
       /\ \/ parseCSVRecord(ledger[i].fields).isNil
          \/ DocName(PoolOf(ledger[i]), 0) \in cycle.failing

\* C31: within one tail cycle that has read the ledger (no empty line in
\* it), after a record that fails to parse or whose document fails to be
\* written, every later record of the batch is still read by the loop, and
\* a later record that does not fail itself has its document written.
C31_FailedRecordSkipped ==
    ( /\ cycle.opened
      /\ \A k \in 1..cycle.upto : ledger[k].kind # "blank" )
    => \A i \in Batch :
          FailsInCycle(i)
          => \A j \in Batch :
                j > i => /\ j \in cycle.scanned
                         /\ ~FailsInCycle(j)
                            => DocName(PoolOf(ledger[j]), 0) \in cycle.wrote

----------------------------------------------------------------------------
(* Claims about the Swap Sweep's list (SpecBan).                           *)

\* The identifiers in the blacklist file: the trimmed pieces between its
\* delimiters, the ASCII and the full-width comma.
BanEntries ==
    LET pieces == Split(ReplaceAll(banFile))
    IN  {TrimSpace(pieces[i]) : i \in 1..Len(pieces)} \ {<< >>}

\* The address a line of the form "token: <address>, ..." reports.
AddressOf(l) ==
    LET text == TrimLeft(l.after)
    IN  TrimSpace(SubSeq(text, 1, IndexComma(text) - 1))

\* The addresses the listing reports, line by line.
Reported ==
    LET lines == SelectSeq(listingOut,
                     LAMBDA l : /\ l.marker
                                /\ IndexComma(l.after) > 0
                                /\ AddressOf(l) # << >>)
    IN  [i \in 1..Len(lines) |-> AddressOf(lines[i])]

\* The pass has walked its whole list and was not cut short.
SweepComplete ==
    /\ sched["swap"] = "loop"
    /\ idx["swap"] = passLen["swap"]
    /\ ~cancelled

\* C12: no token in the blacklist as loaded for the pass is passed to the
\* swap action in that pass.
C12_BlacklistedNeverPassed ==
    \A i \in 1..Len(passed) : passed[i] \notin banList

\* C12 witness: the listing reported a token of the loaded blacklist and
\* another token, and the pass has passed the other one.
C12_Witness ==
    /\ SweepComplete
    /\ Len(passed) >= 1
    /\ Range(Reported) \cap banList # {}

\* C13, as stated: at the end of a pass the tokens passed to the swap action
\* are the reported tokens that are not in the blacklist.
C13_PassedAreReportedNotBanned ==
    SweepComplete => Range(passed) = Range(Reported) \ BanEntries

\* C13, amended: at the end of a pass that was not cut short, the swap action
\* was started once for each reported address of 32 to 44 bytes that is not
\* in the blacklist, in the order of the output, and for nothing else.
C13_PassedAreValidReportedNotBanned ==
    SweepComplete =>
        passed = SelectSeq(Reported,
                     LAMBDA t : /\ ByteLen(t) >= MinAddressLen
                                /\ ByteLen(t) <= MaxAddressLen
                                /\ t \notin BanEntries)

\* C13 witness: the blacklist has two entries, the listing reported one of
\* them and one other address, and exactly the other one was passed.
C13_Witness ==
    /\ SweepComplete
    /\ Cardinality(BanEntries) = 2
    /\ Len(Reported) = 2
    /\ Reported[1] \in BanEntries
    /\ passed = <<Reported[2]>>

----------------------------------------------------------------------------
(* Claims about the Reward Harvest pass and the readers (SpecHarvest).     *)

\* The string a document holds under a key at the top level, and under
\* data; "" when there is none.
TopString(doc, key) ==
    IF doc.kind = "object" /\ doc.top[key].t = "string"
      THEN doc.top[key].s ELSE ""

NestedString(doc, key) ==
    IF doc.kind = "object" /\ doc.dataKind = "object" /\ doc.data[key].t = "string"
      THEN doc.data[key].s ELSE ""

\* The document's positionAddress, top level or nested under data, is
\* non-empty.
PositionPopulated(doc) ==
    TopString(doc, "positionAddress") # "" \/ NestedString(doc, "positionAddress") # ""

\* The pass takes its next entry in this step.
ClaimItemStep == idx'["claim"] = idx["claim"] + 1

\* The harvest action is started in this step.
HarvestStarts == act["harvest"] = "idle" /\ act'["harvest"] = "running"

\* C14: a Reward Harvest pass starts the harvest action only for a document
\* whose positionAddress is non-empty; a document without it is passed
\* over: no action, no error, and the pass goes on.
C14_HarvestOnlyWithPosition ==
    [][/\ HarvestStarts => (ClaimItemStep /\ PositionPopulated(claimDoc'))
       /\ (ClaimItemStep /\ ~PositionPopulated(claimDoc'))
              => /\ act' = act
                 /\ outcome'["harvest"] = "none"
                 /\ sched'["claim"] = "loop"
                 /\ passLen' = passLen]_vars

\* C14 witness: in one pass a document without positionAddress was passed
\* over and the pass is at its next entry.
C14_Witness ==
    /\ sched["claim"] = "loop"
    /\ idx["claim"] >= 1
    /\ idx["claim"] < passLen["claim"]
    /\ claimDoc.kind = "object"
    /\ ~PositionPopulated(claimDoc)

\* C15: a harvest action that fails does not abort the pass: the range loop
\* goes on from where it was, the pass ends only when every entry has been
\* taken, and the scheduler leaves its loop only on cancellation.
C15_FailureDoesNotAbortPass ==
    [][/\ (act["harvest"] = "running" /\ act'["harvest"] = "idle")
              => /\ sched'["claim"] = "loop"
                 /\ idx'["claim"] = idx["claim"]
                 /\ passLen' = passLen
       /\ (sched["claim"] \in {"loop", "exec"} /\ sched'["claim"] = "wait")
              => idx["claim"] = passLen["claim"]
       /\ sched'["claim"] = "exited" => cancelled]_vars

\* C15 witness: the harvest action has failed for one document and the pass
\* is at its loop with entries still to come.
C15_Witness ==
    /\ outcome["harvest"] = "fail"
    /\ sched["claim"] = "loop"
    /\ idx["claim"] < passLen["claim"]

\* C16: each of the three readers returns the top-level value when it is a
\* non-empty string and otherwise the value nested under data; when both
\* are there the top-level one wins.
C16_TopLevelWins ==
    LET Expected(key) ==
            IF TopString(claimDoc, key) # ""
              THEN TopString(claimDoc, key)
              ELSE NestedString(claimDoc, key)
    IN  /\ readPositionFromPoolJSON(claimDoc) = Expected("positionAddress")
        /\ readTokenContractAddressFromPoolJSON(claimDoc) = Expected("ca")
        /\ readPoolNameFromPoolJSON(claimDoc) = Expected("poolName")

\* C16 witness: the document read holds a non-empty string both at the top
\* level and under data, and the harvest action runs for it.
C16_Witness ==
    /\ act["harvest"] = "running"
    /\ TopString(claimDoc, "positionAddress") = "TOP"
    /\ NestedString(claimDoc, "positionAddress") = "NESTED"

----------------------------------------------------------------------------
(* Claims about the dispatch workers (SpecDispatch, LiveDispatch).         *)

\* The provisioning action has been started for the followed path.
Provisioned ==
    watchPc = "exec" \/ (watchPc = "done" /\ watchExit \in {"fail", "ok"})

C20_PermitsMatchWorkers ==
    /\ sem = running
    /\ watchPc \in {"started", "exec"} => sem >= 1

\* C20 witness: the followed worker has returned early, on a document
\* without poolAddress, while other workers hold their permits.
C20_Witness ==
    /\ watchPc = "done"
    /\ watchExit = "noPool"
    /\ running >= 1
    /\ sem = running

----------------------------------------------------------------------------
(* The schedulers' timing (SpecClock).                                     *)

\* A pass begins in this step.
PassBegins == passes' = passes + 1

\* C21: each periodic scheduler has at most one external action in flight at
\* any time, and at most one of its passes is in progress at any time.
C21_OneActionOnePass == passes <= 1 /\ inFlight <= 1

\* A Swap Sweep action is in flight while a tick waits in the ticker's
\* channel: the tick starts nothing until the pass has returned.
C21_Witness ==
    /\ who = "swap"
    /\ inFlight = 1
    /\ passes = 1
    /\ tick
    /\ nextTick # 0

\* C22: every Price Refresh pass, the first and every later one, begins at
\* second 1 of a wall-clock minute, whatever the previous pass lasted.
C22_PriceAtSecondOne ==
    [][(who = "price" /\ PassBegins) => now % 60 = 1]_vars

\* The second ends, at a harvest slot, with the ticker loop in place.
HarvestSlotEnds ==
    /\ who = "claim"
    /\ nextTick # 0
    /\ now' = now + 1
    /\ now % 60 \in {2, 32}

SlotInstants(t) ==
    {(t - (t % 60)) + d : d \in {2, 32, 62, 92}}

\* The least element of a non-empty set of instants.
Earliest(S) == CHOOSE x \in S : \A y \in S : x <= y

\* C24: the first Reward Harvest pass is scheduled for the earliest instant
\* after the start time among second 2 and second 32 of the current and of
\* the next minute.
C24_FirstHarvestAtNearestSlot ==
    (who = "claim" /\ tpc = "init") =>
        target = Earliest({x \in SlotInstants(startAt) : x > startAt})

----------------------------------------------------------------------------
(* The provisioning and harvest actions (SpecActions).                     *)

\* C25: the provisioning action exits with a non-zero code whenever it did
\* not open a position and add liquidity, so the dispatcher logs a success
\* for a run only when the run opened a position, added liquidity and wrote
\* positionAddress to the document.
C25_SuccessMeansProvisioned ==
    \A r \in Runs :
        /\ (run[r].pc \in {"exited", "logged"} /\ ~run[r].added) =>
               run[r].exit # 0
        /\ run[r].log = "success" =>
               (run[r].pos # 0 /\ run[r].added /\ run[r].wrote)

\* C26: the harvest action acts on the pool named by its --pool argument and
\* on the position that this pool's document holds.
C26_HarvestActsOnArgument ==
    harvest.arg # "none" =>
        /\ harvest.pool = harvest.arg
        /\ harvest.position = docs[harvest.arg].pos

\* C27: the provisioning action opens a position only for a pool whose
\* document holds no positionAddress, and a positionAddress that a document
\* holds is never replaced by another position.
C27_PositionNeverReplaced ==
    [][/\ \A r \in Runs :
            run'[r].pos # run[r].pos => docs[run[r].pool].pos = 0
       /\ \A p \in Pools :
            docs[p].pos # 0 => docs'[p].pos = docs[p].pos]_vars

----------------------------------------------------------------------------
(* Price monitoring and removal (SpecGuard).                               *)

\* A price check of pool p, whose document has c and a position, ends in
\* this step.
CheckEnds(p) ==
    /\ fetch.pool = p
    /\ fetch'.pool = "none"
    /\ docs[p].at = "store"
    /\ docs[p].pos # 0

\* C28: once a price check has found the price of a pool below 0.4*c, a
\* later price check of that pool runs the removal action when the price is
\* at least 0.48*c or ten minutes have passed since the monitoring began;
\* and a price check runs the removal action by this rule only for a pool
\* that is being monitored.
C28_MonitoredPoolIsRemoved ==
    [][\A p \in Pools :
          /\ ( /\ CheckEnds(p)
               /\ entered[p] >= 0
               /\ \/ AtTarget(lastPrice', RefPrice)
                  \/ TimedOut(minute, entered[p]) )
             => triggered'
          /\ (CheckEnds(p) /\ triggered') => entered[p] >= 0]_vars

\* C29: a document leaves the State Store directory only by being moved to
\* the history area, by a removal run for its pool that has sent all its
\* transactions and whose follow-up swap was judged successful; no step
\* deletes a document.
C29_ArchivedOnlyAfterSwap ==
    [][\A p \in Pools :
          (docs[p].at = "store" /\ docs'[p].at # "store") =>
              /\ docs'[p].at = "history"
              /\ rem.pool = p
              /\ rem.allTx
              /\ rem'.swapOk]_vars

\* A removal run whose swap was judged successful has moved the document of
\* its pool to the history area, and another whose swap failed left its
\* document in the State Store.
C29_Witness ==
    /\ docs["P1"].at = "history"
    /\ docs["P2"].at = "store"
    /\ rem.pool = "P2"
    /\ rem.pc = "done"
    /\ rem.allTx
    /\ ~rem.swapOk

----------------------------------------------------------------------------
(* Reprocessing of ledger rows (SpecReprocess).                            *)

----------------------------------------------------------------------------
(* Claims about the provisioning dispatch (SpecJob).                       *)

\* The flags of the command line the call built.
FlagsPassed == {job.args[i].flag : i \in 1..Len(job.args)}

\* The file cannot be read or is not JSON, or its poolAddress is absent or
\* empty.
NoUsablePool(file) ==
    \/ file.kind # "object"
    \/ file.pool.t = "absent"
    \/ file.pool.t = "string" /\ file.pool.s = ""

\* C32: for a document that cannot be read or parsed, or whose poolAddress
\* is absent or empty, the provisioning action is never invoked: the call
\* builds no command line, is never at the command, and returns on one of
\* the three early paths.
C32_NoPoolNoProvision ==
    NoUsablePool(job.file)
    => /\ job.pc # "exec"
       /\ job.args = << >>
       /\ job.pc = "done" => job.exit \in {"readError", "parseError", "noPool"}

\* C32 witness: a call on a document whose poolAddress is the empty string
\* has returned on the poolAddress check, and no command was run.
C32_Witness ==
    /\ job.pc = "done"
    /\ job.exit = "noPool"
    /\ job.file.pool = JStr("")
    /\ job.args = << >>

\* The value under data is a non-empty string.
NestedGiven(value) == value.t = "string" /\ value.s # ""

\* C33: the command line of the provisioning action always has --pool, has
\* --token exactly when the nested ca is a non-empty string and
\* --last_updated_first exactly when the nested last_updated_first is one,
\* each with the document's value, and has no flag with an empty value.
C33_FlagsMatchDocument ==
    job.pc = "exec"
    => /\ Flag("--pool", job.file.pool.s) \in Range(job.args)
       /\ "--token" \in FlagsPassed <=> NestedGiven(job.file.ca)
       /\ "--last_updated_first" \in FlagsPassed <=> NestedGiven(job.file.luf)
       /\ \A i \in 1..Len(job.args) :
             /\ job.args[i].value # ""
             /\ job.args[i].flag = "--token" => job.args[i].value = job.file.ca.s
             /\ job.args[i].flag = "--last_updated_first"
                => job.args[i].value = job.file.luf.s
       /\ \A i, j \in 1..Len(job.args) :
             job.args[i].flag = job.args[j].flag => i = j

\* C33 witness: the command runs for a document whose nested ca is the empty
\* string and whose nested last_updated_first is given: --pool and
\* --last_updated_first are passed, --token is not.
C33_Witness ==
    /\ job.pc = "exec"
    /\ job.file.ca = JStr("")
    /\ job.file.luf = JStr("L1")
    /\ FlagsPassed = {"--pool", "--last_updated_first"}

----------------------------------------------------------------------------
(* Claims about a failed listing and about cancellation in the log         *)
(* (SpecSweep).                                                            *)

\* The listing of the current pass has just failed or timed out, and
\* executeJupSwap has its result in hand.
ListingJustFailed ==
    sched["swap"] = "loop" /\ outcome["listing"] \in {"fail", "timeout"}

\* C34: when the holdings listing fails or times out, the pass has an empty
\* list, the next step of the Swap Sweep scheduler takes it back to its
\* ticker loop with no swap action started, and from the ticker loop the
\* next pass can begin.
C34_FailedListingNoSwap ==
    [][ /\ ListingJustFailed
           => /\ tokenAddresses = << >>
              /\ swapInvoked = 0
              /\ sched'["swap"] # sched["swap"]
                 => /\ sched'["swap"] = "wait"
                    /\ act'["swap"] = "idle"
                    /\ swapInvoked' = 0
        /\ (listFailed /\ sched["swap"] = "wait" /\ ~cancelled /\ ProcessAlive)
           => ENABLED SwapBegin ]_vars

\* C34 witness: after a pass whose listing failed or timed out, the listing
\* of the next pass is running.
C34_Witness ==
    /\ listFailed
    /\ sched["swap"] = "listing"
    /\ act["listing"] = "running"
    /\ ~cancelled

\* C35: an entry that the Swap Sweep scheduler writes to the Log Sink for
\* work that the global cancellation stopped does not carry the mark of a
\* failure.
C35_CancelNotLoggedAsFailure ==
    swapLog.branch = "canceled" => swapLog.mark # "error"

----------------------------------------------------------------------------
(* Claims about the blacklist file and the length of addresses (SpecBan).  *)

\* The listing of the current pass has just succeeded and its output has
\* been parsed.
ListingJustParsed == sched["swap"] = "loop" /\ outcome["listing"] = "ok"

\* The reported addresses of 32 to 44 bytes, in the order of the output.
ValidReported ==
    SelectSeq(Reported, LAMBDA t : /\ ByteLen(t) >= MinAddressLen
                                  /\ ByteLen(t) <= MaxAddressLen)

\* C37: the blacklist loaded for a pass is exactly the set of non-empty
\* trimmed pieces of the file content between ASCII or full-width commas;
\* when the file is missing or empty the set is empty and the pass goes on
\* with every reported address of valid length.
C37_BanListIsFileEntries ==
    ListingJustParsed
    => /\ banStat = "exists" => banList = BanEntries
       /\ (banStat = "missing" \/ banFile = << >>)
          => /\ banList = {}
             /\ tokenAddresses = ValidReported

\* C37 witness: with no blacklist file the listing was parsed and the pass
\* has addresses to walk.
C37_Witness ==
    /\ ListingJustParsed
    /\ banStat = "missing"
    /\ Len(tokenAddresses) >= 1

\* C38: every address passed to the swap action is 32 to 44 bytes long, and
\* only addresses within these bounds are looked up in the blacklist.
C38_PassedHaveValidLength ==
    /\ \A i \in 1..Len(passed) :
          /\ ByteLen(passed[i]) >= MinAddressLen
          /\ ByteLen(passed[i]) <= MaxAddressLen
    /\ \A t \in banChecked :
          /\ ByteLen(t) >= MinAddressLen
          /\ ByteLen(t) <= MaxAddressLen

\* C38 witness: the listing reported a 4-byte identifier that is in the
\* blacklist and a 40-byte address; the pass has passed the address, and the
\* short identifier was never looked up.
C38_Witness ==
    /\ SweepComplete
    /\ Len(passed) >= 1
    /\ \E t \in Range(Reported) \cap banList :
          ByteLen(t) < MinAddressLen /\ t \notin banChecked

----------------------------------------------------------------------------
(* Claims about the Log Sink (SpecLog) and about startup (SpecBoot).       *)

\* The tasks between logMutex.Lock() and logMutex.Unlock().
InSection == {t \in LogTasks : logPc[t] \in {"locked", "wrote", "closing"}}

\* C39: at most one task is inside the section that appends to the log file
\* and flushes it, and no task writes to the log file after closeLogging has
\* closed it.
C39_LogWritesExclusive ==
    /\ Cardinality(InSection) <= 1
    /\ ~lateWrite

\* C39 witness: after closeLogging a task has gone through the section
\* without writing, while two other tasks wait for the mutex.
C39_Witness ==
    /\ logClosed
    /\ logPc["worker"] = "wrote"
    /\ logPc["price"] = "wait"
    /\ logPc["swap"] = "wait"
    /\ ~lateWrite

\* C40: when the State Store directory cannot be created or the ledger file
\* cannot be opened or read, the process has ended and no scheduler, no
\* watcher and no external action was started.
C40_FatalBeforeAnythingStarts ==
    boot.failed \in {"mkdir", "headers", "count"}
    => /\ mainPc = "killed"
       /\ boot.started \cap ({"watcher"} \cup Schedulers) = {}
       /\ \A s \in Schedulers : sched[s] = "none"
       /\ \A a \in ExtActions : act[a] = "idle"
       /\ running = 0

\* C40 witness: readCSVHeaders failed after the log file was opened, the
\* signal goroutine started and the directory created.
C40_Witness ==
    /\ boot.failed = "headers"
    /\ mainPc = "killed"
    /\ boot.started = {"signals"}

====
